---- MODULE Spec2Model ----
(***************************************************************************)
(* The HTML-to-React conversion pipeline (html-to-react.js):               *)
(* HTMLToReactConverter, convertHTMLToReact, writeComponents and the CLI.  *)
(*                                                                         *)
(* JavaScript strings are TLA+ strings (Len, SubSeq and \o act on them),   *)
(* arrays are sequences, null is the record Null.                          *)
(***************************************************************************)
EXTENDS Integers, Sequences, FiniteSets, TLC

VARIABLES
    document,          \* this.document: the loaded DOM, or NoDocument
    componentCounter,  \* this.componentCounter
    fullJSX,           \* the last return value of convertBody
    components,        \* the last return value of extractAllComponents
    tree,              \* the last return value of getComponentTree
    boundaries,        \* the last return value of extractComponentBoundaries
    call,              \* the last call of a string-level method: method, arg, ret
    argv,              \* process.argv.slice(2)
    fs,                \* the file system: files and directories by path
    cli,               \* the CLI run: its position, its locals and its exit code
    page,              \* HomePage: isChatOpen, isChatMinimized, cartCount
    chat,              \* the mounted ChatbotWindow: messages, cart, orders, ...
    timers,            \* the setTimeout callbacks of handleSend not yet run
    hiddenSession,     \* history: the session the chat window had when it was hidden
    agent,             \* ChatAgent: isOpen, messages, input, isTyping
    agentTimers        \* the setTimeout callbacks of ChatAgent.handleSend not yet run

convVars == <<document, componentCounter, fullJSX, components, tree, boundaries>>
cliVars == <<argv, fs, cli>>
chatVars == <<page, chat, timers, hiddenSession>>
agentVars == <<agent, agentTimers>>
uiVars == <<page, chat, timers, hiddenSession, agent, agentTimers>>
vars == <<document, componentCounter, fullJSX, components, tree, boundaries, call,
          argv, fs, cli, page, chat, timers, hiddenSession, agent, agentTimers>>

(***************************************************************************)
(* Bounds of the model.                                                    *)
(***************************************************************************)
MaxAttrs == 2   \* attributes per element handed to buildAttributes
MaxDecls == 2   \* ';'-separated pieces of a style string
MaxNodes == 3   \* nodes below <body> of a document given to the converter
MaxBoundaryNodes == 2   \* nodes below <body> of a document given to boundary detection
MaxCliNodes == 2   \* nodes below <body> of the page given to the CLI
MaxTreeNodes == 2   \* elements below the root of a generated file
MaxViewNodes == 2   \* nodes below <body> of a document whose two views are compared
MaxMessages == 5   \* messages of a chat window

(***************************************************************************)
(* JavaScript values and string built-ins.                                 *)
(***************************************************************************)
Null == [type |-> "null"]
NotCalled == [type |-> "notcalled"]
Returned(v) == [type |-> "returned", value |-> v]
\* this.document = null: a loaded document has at least its <body>
NoDocument == <<>>
Obj(entries) == [type |-> "object", entries |-> entries]

Min(S) == CHOOSE x \in S : \A y \in S : x <= y

\* F(v), with v computed once: a const of the code
Once(v, F(_)) == CHOOSE r \in {F(x) : x \in {v}} : TRUE

CharAt(s, i) == SubSeq(s, i, i)

LowerLetters ==
    <<"a", "b", "c", "d", "e", "f", "g", "h", "i", "j", "k", "l", "m",
      "n", "o", "p", "q", "r", "s", "t", "u", "v", "w", "x", "y", "z">>
UpperLetters ==
    <<"A", "B", "C", "D", "E", "F", "G", "H", "I", "J", "K", "L", "M",
      "N", "O", "P", "Q", "R", "S", "T", "U", "V", "W", "X", "Y", "Z">>
DigitChars == {"0", "1", "2", "3", "4", "5", "6", "7", "8", "9"}

LowerSet == {LowerLetters[i] : i \in 1..26}
UpperSet == {UpperLetters[i] : i \in 1..26}
UpperOf == [c \in LowerSet |-> UpperLetters[CHOOSE i \in 1..26 : LowerLetters[i] = c]]
LowerOf == [c \in UpperSet |-> LowerLetters[CHOOSE i \in 1..26 : UpperLetters[i] = c]]

\* index of the first occurrence of the character c in s, 0 when there is none
RECURSIVE IndexFrom(_, _, _)
IndexFrom(s, c, i) ==
    IF i > Len(s) THEN 0
    ELSE IF CharAt(s, i) = c THEN i
    ELSE IndexFrom(s, c, i + 1)

IndexOfChar(s, c) == IndexFrom(s, c, 1)

IsLowerLetter(c) == c \in LowerSet
IsUpperLetter(c) == c \in UpperSet
IsDigit(c) == c \in DigitChars
IsAlnum(c) == IsLowerLetter(c) \/ IsUpperLetter(c) \/ IsDigit(c)
\* \s of a JavaScript regular expression, and the characters trim() strips
IsSpace(c) == c = " " \/ c = "\n" \/ c = "\t"

toUpperCaseChar(c) == IF c \in LowerSet THEN UpperOf[c] ELSE c

toLowerCaseChar(c) == IF c \in UpperSet THEN LowerOf[c] ELSE c

\* s.toLowerCase(), from position i on
RECURSIVE toLowerCaseFrom(_, _)
toLowerCaseFrom(s, i) ==
    IF i > Len(s) THEN ""
    ELSE toLowerCaseChar(CharAt(s, i)) \o toLowerCaseFrom(s, i + 1)

toLowerCase(s) == toLowerCaseFrom(s, 1)

startsWith(s, p) == Len(s) >= Len(p) /\ SubSeq(s, 1, Len(p)) = p

\* s.includes(p); both strings are computed once
includes(s, p) ==
    \E str \in {s} : \E sub \in {p} :
        \E i \in 1..(Len(str) - Len(sub) + 1) : SubSeq(str, i, i + Len(sub) - 1) = sub

\* s.split(sep) for a one-character separator: empty pieces are kept
RECURSIVE split(_, _)
split(s, sep) ==
    LET i == IndexOfChar(s, sep)
    IN  IF i = 0 THEN <<s>>
        ELSE <<SubSeq(s, 1, i - 1)>> \o split(SubSeq(s, i + 1, Len(s)), sep)

RECURSIVE trimStart(_)
trimStart(s) ==
    IF s # "" /\ IsSpace(CharAt(s, 1)) THEN trimStart(SubSeq(s, 2, Len(s))) ELSE s

RECURSIVE trimEnd(_)
trimEnd(s) ==
    IF s # "" /\ IsSpace(CharAt(s, Len(s))) THEN trimEnd(SubSeq(s, 1, Len(s) - 1)) ELSE s

trim(s) == trimEnd(trimStart(s))

\* array.join(sep)
RECURSIVE join(_, _)
join(arr, sep) ==
    IF arr = <<>> THEN ""
    ELSE IF Len(arr) = 1 THEN arr[1]
    ELSE arr[1] \o sep \o join(Tail(arr), sep)

\* array.filter(Boolean) on an array of strings
filterBoolean(arr) == SelectSeq(arr, LAMBDA x : x # "")

(***************************************************************************)
(* Objects with string keys: the entries <<key, value>> in insertion       *)
(* order. Assigning to a key that is present keeps its position.           *)
(***************************************************************************)
HasKey(entries, k) == \E i \in 1..Len(entries) : entries[i][1] = k

Get(entries, k) == entries[Min({i \in 1..Len(entries) : entries[i][1] = k})][2]

Put(entries, k, v) ==
    IF HasKey(entries, k)
    THEN [i \in 1..Len(entries) |->
            IF entries[i][1] = k THEN <<k, v>> ELSE entries[i]]
    ELSE Append(entries, <<k, v>>)

(***************************************************************************)
(* JSX_ATTR_MAP, SELF_CLOSING_TAGS, SKIP_TAGS                              *)
(***************************************************************************)
JSX_ATTR_MAP ==
    << <<"class", "className">>, <<"for", "htmlFor">>, <<"tabindex", "tabIndex">>,
       <<"readonly", "readOnly">>, <<"maxlength", "maxLength">>,
       <<"minlength", "minLength">>, <<"cellpadding", "cellPadding">>,
       <<"cellspacing", "cellSpacing">>, <<"rowspan", "rowSpan">>,
       <<"colspan", "colSpan">>, <<"usemap", "useMap">>,
       <<"frameborder", "frameBorder">>, <<"contenteditable", "contentEditable">>,
       <<"crossorigin", "crossOrigin">>, <<"datetime", "dateTime">>,
       <<"enctype", "encType">>, <<"formaction", "formAction">>,
       <<"formenctype", "formEncType">>, <<"formmethod", "formMethod">>,
       <<"formnovalidate", "formNoValidate">>, <<"formtarget", "formTarget">>,
       <<"hreflang", "hrefLang">>, <<"inputmode", "inputMode">>,
       <<"srcdoc", "srcDoc">>, <<"srcset", "srcSet">>,
       <<"autocomplete", "autoComplete">>, <<"autofocus", "autoFocus">>,
       <<"autoplay", "autoPlay">> >>

SELF_CLOSING_TAGS ==
    {"area", "base", "br", "col", "embed", "hr", "img", "input",
     "link", "meta", "param", "source", "track", "wbr"}

SKIP_TAGS == {"script", "style", "noscript", "link", "meta"}

(***************************************************************************)
(* parseStyleString, formatStyleObject                                     *)
(***************************************************************************)
\* property.replace(/-([a-z])/g, (_, letter) => letter.toUpperCase())
RECURSIVE camelProperty(_)
camelProperty(s) ==
    IF s = "" THEN ""
    ELSE IF CharAt(s, 1) = "-" /\ Len(s) >= 2 /\ IsLowerLetter(CharAt(s, 2))
         THEN toUpperCaseChar(CharAt(s, 2)) \o camelProperty(SubSeq(s, 3, Len(s)))
         ELSE CharAt(s, 1) \o camelProperty(SubSeq(s, 2, Len(s)))

\* const [property, value] = rule.split(':').map(s => s.trim()): the first two
\* pieces; value is undefined (here "") when the rule holds no ':'
RuleProperty(rule) == trim(split(rule, ":")[1])

RuleValue(rule) ==
    LET parts == split(rule, ":")
    IN  IF Len(parts) >= 2 THEN trim(parts[2]) ELSE ""

\* the for loop of parseStyleString over the rules, from the object so far
RECURSIVE parseRules(_, _)
parseRules(rules, styleObj) ==
    IF rules = <<>> THEN styleObj
    ELSE LET property == RuleProperty(rules[1])
             value == RuleValue(rules[1])
         IN  parseRules(Tail(rules),
                        IF property # "" /\ value # ""
                        THEN Put(styleObj, camelProperty(property), value)
                        ELSE styleObj)

parseStyleString(styleStr) ==
    IF styleStr = "" THEN Null
    ELSE LET rules == filterBoolean(split(styleStr, ";"))
             styleObj == parseRules(rules, <<>>)
         IN  IF Len(styleObj) > 0 THEN Obj(styleObj) ELSE Null

\* every value parseStyleString stores is a string, so formattedValue is the
\* quoted branch
formatStyleObject(styleObj) ==
    IF styleObj = Null THEN Null
    ELSE LET entries == [i \in 1..Len(styleObj.entries) |->
                            styleObj.entries[i][1] \o ": \"" \o styleObj.entries[i][2] \o "\""]
         IN  "{{ " \o join(entries, ", ") \o " }}"

(***************************************************************************)
(* buildAttributes                                                         *)
(***************************************************************************)
\* JSON.stringify of a string: quotes and backslashes escaped
RECURSIVE jsonEscape(_)
jsonEscape(s) ==
    IF s = "" THEN ""
    ELSE LET c == CharAt(s, 1)
         IN  (IF c = "\"" \/ c = "\\" THEN "\\" \o c ELSE c)
                \o jsonEscape(SubSeq(s, 2, Len(s)))

\* JSON.stringify(styleObj)
jsonStringify(styleObj) ==
    "{" \o join([i \in 1..Len(styleObj.entries) |->
                    "\"" \o jsonEscape(styleObj.entries[i][1]) \o "\":\""
                         \o jsonEscape(styleObj.entries[i][2]) \o "\""], ",") \o "}"

\* JSX_ATTR_MAP[name] || name
jsxName(name) ==
    IF HasKey(JSX_ATTR_MAP, name) THEN Get(JSX_ATTR_MAP, name) ELSE name

\* attributeToJSX without the JSX_ATTR_MAP translation of the name
attributeToJSX_NoRename(attr) ==
    LET lname == toLowerCase(attr.name)
        value == attr.value
    IN  IF startsWith(lname, "on") THEN <<>>
        ELSE IF startsWith(lname, "data-react") \/ startsWith(lname, "data-v-") THEN <<>>
        ELSE IF lname = "style"
             THEN LET styleObj == parseStyleString(value)
                  IN  IF styleObj # Null
                      THEN <<"style={" \o jsonStringify(styleObj) \o "}">>
                      ELSE <<>>
        ELSE IF value = "" \/ value = lname \/ value = "true" THEN <<lname>>
        ELSE <<lname \o "=\"" \o value \o "\"">>

\* one pass of the for loop of buildAttributes: what the attribute pushes
\* onto attrs (nothing when it is skipped)
attributeToJSX(attr) ==
    LET lname == toLowerCase(attr.name)
        value == attr.value
        name == jsxName(lname)
    IN  IF startsWith(lname, "on") THEN <<>>
        ELSE IF startsWith(lname, "data-react") \/ startsWith(lname, "data-v-") THEN <<>>
        ELSE IF name = "style"
             THEN LET styleObj == parseStyleString(value)
                  IN  IF styleObj # Null
                      THEN <<"style={" \o jsonStringify(styleObj) \o "}">>
                      ELSE <<>>
        ELSE IF value = "" \/ value = name \/ value = "true" THEN <<name>>
        ELSE IF name = "className" THEN <<"className=\"" \o value \o "\"">>
        ELSE <<name \o "=\"" \o value \o "\"">>

RECURSIVE buildAttributesFrom(_)
buildAttributesFrom(attributes) ==
    IF attributes = <<>> THEN <<>>
    ELSE attributeToJSX(attributes[1]) \o buildAttributesFrom(Tail(attributes))

buildAttributes(element) == buildAttributesFrom(element.attributes)

(***************************************************************************)
(* Inputs of the string-level methods.                                     *)
(***************************************************************************)
Attr(n, v) == [name |-> n, value |-> v]

AttrPool ==
    { Attr("onclick", "go()"), Attr("data-reactid", "1"), Attr("data-v-7ba5", ""),
      Attr("data-id", "7"), Attr("class", "btn primary"), Attr("for", "email"),
      Attr("tabindex", "0"), Attr("style", "color: red"), Attr("style", "color"),
      Attr("disabled", ""), Attr("checked", "checked"), Attr("hidden", "true"),
      Attr("href", "/a"), Attr("viewBox", "0 0 1 1") }

\* an element's attributes: no name twice
AttrLists(pool, n) ==
    {as \in UNION {[1..k -> pool] : k \in 0..n} :
        \A i, j \in 1..Len(as) : i # j => as[i].name # as[j].name}

AttrElements == {[tag |-> "div", attributes |-> as] : as \in AttrLists(AttrPool, MaxAttrs)}

StylePieces ==
    { "color: red", "background: url(http://a)", "margin-top:0", "", " ", "color",
      ": red", "color: blue", "-webkit-box-flex: 1", " font-size : 12px " }

StyleStrings == {join(ps, ";") : ps \in UNION {[1..k -> StylePieces] : k \in 0..MaxDecls}}

(***************************************************************************)
(* The string-level methods called on a converter.                         *)
(***************************************************************************)
\* the module is used as a library: no CLI run
NoFS == [files |-> <<>>, dirs |-> {}]
NoCLI == argv = <<>> /\ fs = NoFS /\ cli = NotCalled

\* no page is shown
NoUI ==
    /\ page = NotCalled /\ chat = NotCalled /\ timers = <<>> /\ hiddenSession = NotCalled
    /\ agent = NotCalled /\ agentTimers = <<>>

\* a call in flight: the method, its argument, and the return value once it ran
Pending(m, a) == [method |-> m, arg |-> a, done |-> FALSE, ret |-> Null]

Return(r) == call' = [call EXCEPT !.done = TRUE, !.ret = r]

ParseStyleString ==
    /\ call.method = "parseStyleString" /\ ~call.done
    /\ Return(parseStyleString(call.arg))
    /\ UNCHANGED <<convVars, cliVars, uiVars>>

FormatStyleObject ==
    /\ call.method = "formatStyleObject" /\ ~call.done
    /\ Return(formatStyleObject(call.arg))
    /\ UNCHANGED <<convVars, cliVars, uiVars>>

BuildAttributes ==
    /\ call.method = "buildAttributes" /\ ~call.done
    /\ Return(buildAttributes(call.arg))
    /\ UNCHANGED <<convVars, cliVars, uiVars>>

InitAttrs ==
    /\ document = NoDocument
    /\ componentCounter = 0
    /\ fullJSX = NotCalled
    /\ components = NotCalled
    /\ tree = NotCalled
    /\ boundaries = NotCalled
    /\ NoCLI
    /\ NoUI
    /\ \/ \E s \in StyleStrings : call = Pending("parseStyleString", s)
       \/ \E s \in StyleStrings : call = Pending("formatStyleObject", parseStyleString(s))
       \/ \E el \in AttrElements : call = Pending("buildAttributes", el)

NextAttrs ==
    \/ ParseStyleString
    \/ FormatStyleObject
    \/ BuildAttributes

SpecAttrs == InitAttrs /\ [][NextAttrs]_vars

(***************************************************************************)
(* The DOM that jsdom hands to the converter. A document is the sequence   *)
(* of the nodes of <body> in document order (pre-order), each with its     *)
(* depth; node 1 is <body> itself, at depth 0. A node is identified by its *)
(* index.                                                                  *)
(***************************************************************************)
ELEMENT_NODE == 1
TEXT_NODE == 3
COMMENT_NODE == 8

Element(tag, attrs) ==
    [nodeType |-> ELEMENT_NODE, tagName |-> tag, attributes |-> attrs, data |-> ""]
Text(s) == [nodeType |-> TEXT_NODE, tagName |-> "", attributes |-> <<>>, data |-> s]
Comment(s) == [nodeType |-> COMMENT_NODE, tagName |-> "", attributes |-> <<>>, data |-> s]

At(n, d) == [node |-> n, depth |-> d]

\* the last node of the subtree of node i
SubtreeEnd(dom, i) ==
    LET After == {j \in (i + 1)..Len(dom) : dom[j].depth <= dom[i].depth}
    IN  IF After = {} THEN Len(dom) ELSE Min(After) - 1

\* the indexes in S as an increasing sequence
RECURSIVE Ascending(_)
Ascending(S) ==
    IF S = {} THEN <<>> ELSE <<Min(S)>> \o Ascending(S \ {Min(S)})

\* the indexes in S as a decreasing sequence
RECURSIVE Descending(_)
Descending(S) ==
    IF S = {} THEN <<>>
    ELSE LET m == CHOOSE x \in S : \A y \in S : x >= y
         IN  <<m>> \o Descending(S \ {m})

\* childNodes walked from the last child to the first
childNodes_Reversed(dom, i) ==
    Descending({j \in (i + 1)..SubtreeEnd(dom, i) : dom[j].depth = dom[i].depth + 1})

\* element.childNodes
childNodes(dom, i) ==
    Ascending({j \in (i + 1)..SubtreeEnd(dom, i) : dom[j].depth = dom[i].depth + 1})

\* element.children
elementChildren(dom, i) ==
    SelectSeq(childNodes(dom, i), LAMBDA j : dom[j].node.nodeType = ELEMENT_NODE)

\* element.getAttribute(name): null when the attribute is absent
getAttribute(element, name) ==
    LET I == {k \in 1..Len(element.attributes) : element.attributes[k].name = name}
    IN  IF I = {} THEN Null ELSE element.attributes[Min(I)].value

hasAttribute(element, name) ==
    \E k \in 1..Len(element.attributes) : element.attributes[k].name = name

\* element.id and element.className reflect the attribute, "" when absent
idOf(element) ==
    IF hasAttribute(element, "id") THEN getAttribute(element, "id") ELSE ""

classNameOf(element) ==
    IF hasAttribute(element, "class") THEN getAttribute(element, "class") ELSE ""

\* node.textContent: the text of the node's text descendants, in document order
RECURSIVE textOfRange(_, _, _)
textOfRange(dom, from, to) ==
    IF from > to THEN ""
    ELSE (IF dom[from].node.nodeType = TEXT_NODE THEN dom[from].node.data ELSE "")
            \o textOfRange(dom, from + 1, to)

textContent(dom, i) ==
    IF dom[i].node.nodeType = ELEMENT_NODE
    THEN textOfRange(dom, i + 1, SubtreeEnd(dom, i))
    ELSE dom[i].node.data

\* element.tagName.toLowerCase()
tagNameOf(element) == toLowerCase(element.tagName)

(***************************************************************************)
(* elementToJSX, convertBody                                               *)
(***************************************************************************)
\* this.options.preserveComments, as the constructor and the CLI leave it
preserveComments == FALSE

\* '  '.repeat(indent)
RECURSIVE repeatIndent(_)
repeatIndent(indent) == IF indent = 0 THEN "" ELSE "  " \o repeatIndent(indent - 1)

\* escapeBraces left out: the text goes into the JSX as it is
escapeBraces_None(s) == s

\* text.replace(/\{/g, '&#123;').replace(/\}/g, '&#125;')
RECURSIVE escapeBraces(_)
escapeBraces(s) ==
    IF s = "" THEN ""
    ELSE LET c == CharAt(s, 1)
         IN  (IF c = "{" THEN "&#123;" ELSE IF c = "}" THEN "&#125;" ELSE c)
                \o escapeBraces(SubSeq(s, 2, Len(s)))

\* the limit under which a single child is put on the line of its parent
SINGLE_LINE_LIMIT == 60

RECURSIVE elementToJSX(_, _, _)
elementToJSX(dom, i, indent) ==
    LET element == dom[i].node
        indentStr == repeatIndent(indent)
    IN  IF element.nodeType = TEXT_NODE
        THEN LET text == trim(textContent(dom, i))
             IN  IF text = "" THEN "" ELSE escapeBraces(text)
        ELSE IF element.nodeType = COMMENT_NODE
        THEN IF ~preserveComments THEN ""
             ELSE indentStr \o "{/* " \o trim(textContent(dom, i)) \o " */}"
        ELSE IF element.nodeType # ELEMENT_NODE THEN ""
        ELSE LET tagName == tagNameOf(element)
                 attrs == buildAttributes(element)
                 attrsStr == IF Len(attrs) > 0 THEN " " \o join(attrs, " ") ELSE ""
                 kids == childNodes(dom, i)
                 children == filterBoolean([k \in 1..Len(kids) |->
                                                elementToJSX(dom, kids[k], indent + 1)])
             IN  IF tagName \in SKIP_TAGS THEN ""
                 ELSE IF tagName \in SELF_CLOSING_TAGS
                 THEN indentStr \o "<" \o tagName \o attrsStr \o " />"
                 ELSE IF Len(children) = 0
                 THEN LET text == trim(textContent(dom, i))
                      IN  IF text # ""
                          THEN indentStr \o "<" \o tagName \o attrsStr \o ">" \o text
                                    \o "</" \o tagName \o ">"
                          ELSE indentStr \o "<" \o tagName \o attrsStr \o " />"
                 ELSE IF Len(children) = 1 /\ ~includes(children[1], "\n")
                         /\ Len(children[1]) < SINGLE_LINE_LIMIT
                 THEN indentStr \o "<" \o tagName \o attrsStr \o ">" \o trim(children[1])
                            \o "</" \o tagName \o ">"
                 ELSE join(<<indentStr \o "<" \o tagName \o attrsStr \o ">">>
                                \o children
                                \o <<indentStr \o "</" \o tagName \o ">">>, "\n")

\* this.document.body is node 1
convertBody(dom) == elementToJSX(dom, 1, 0)

(***************************************************************************)
(* getComponentTree                                                        *)
(***************************************************************************)
\* element.id || null
idOrNull(element) == IF idOf(element) # "" THEN idOf(element) ELSE Null

TreeNode(tag, id, className, children) ==
    [tag |-> tag, id |-> id, className |-> className, children |-> children]

\* buildTree(element) for an element that is kept; the results of the
\* children that are null (no element, or a skipped tag) are filtered out
RECURSIVE buildTree(_, _)
buildTree(dom, i) ==
    LET element == dom[i].node
        kept == SelectSeq(elementChildren(dom, i),
                          LAMBDA j : tagNameOf(dom[j].node) \notin SKIP_TAGS)
    IN  TreeNode(tagNameOf(element), idOrNull(element), classNameOf(element),
                 [k \in 1..Len(kept) |-> buildTree(dom, kept[k])])

getComponentTree(dom) == buildTree(dom, 1)

(***************************************************************************)
(* toPascalCase, suggestComponentName                                      *)
(***************************************************************************)
\* the class [-_\s]
IsSeparator(c) == c = "-" \/ c = "_" \/ IsSpace(c)

\* str.replace(/[-_\s]+(.)?/g, (_, c) => c ? c.toUpperCase() : ''): a maximal
\* run of separators goes, the character after it (if any) is upper-cased
RECURSIVE dropSeparators(_)
dropSeparators(s) ==
    IF s # "" /\ IsSeparator(CharAt(s, 1)) THEN dropSeparators(SubSeq(s, 2, Len(s))) ELSE s

RECURSIVE capitalizeAfterSeparators(_)
capitalizeAfterSeparators(s) ==
    IF s = "" THEN ""
    ELSE IF IsSeparator(CharAt(s, 1))
         THEN LET rest == dropSeparators(s)
              IN  IF rest = "" THEN ""
                  ELSE toUpperCaseChar(CharAt(rest, 1))
                          \o capitalizeAfterSeparators(SubSeq(rest, 2, Len(rest)))
         ELSE CharAt(s, 1) \o capitalizeAfterSeparators(SubSeq(s, 2, Len(s)))

\* str.replace(/^(.)/, c => c.toUpperCase())
capitalizeFirst(s) ==
    IF s = "" \/ CharAt(s, 1) = "\n" THEN s
    ELSE toUpperCaseChar(CharAt(s, 1)) \o SubSeq(s, 2, Len(s))

\* str.replace(/[^a-zA-Z0-9]/g, '')
RECURSIVE keepAlnum(_)
keepAlnum(s) ==
    IF s = "" THEN ""
    ELSE (IF IsAlnum(CharAt(s, 1)) THEN CharAt(s, 1) ELSE "")
            \o keepAlnum(SubSeq(s, 2, Len(s)))

toPascalCase(str) == keepAlnum(capitalizeFirst(capitalizeAfterSeparators(str)))

semanticMap ==
    << <<"header", "Header">>, <<"nav", "Navigation">>, <<"main", "MainContent">>,
       <<"aside", "Sidebar">>, <<"footer", "Footer">>, <<"article", "Article">>,
       <<"section", "Section">> >>

\* suggestComponentName trying the class before the id
suggestComponentName_ClassFirst(element, counter) ==
    IF classNameOf(element) # ""
    THEN [name |-> toPascalCase(split(classNameOf(element), " ")[1]), counter |-> counter]
    ELSE IF idOf(element) # ""
    THEN [name |-> toPascalCase(idOf(element)), counter |-> counter]
    ELSE IF HasKey(semanticMap, tagNameOf(element))
    THEN [name |-> Get(semanticMap, tagNameOf(element)), counter |-> counter]
    ELSE [name |-> "Component" \o ToString(counter + 1), counter |-> counter + 1]

\* suggestComponentName(element) with this.componentCounter = counter: the name,
\* and the counter afterwards
suggestComponentName(element, counter) ==
    IF idOf(element) # ""
    THEN [name |-> toPascalCase(idOf(element)), counter |-> counter]
    ELSE IF classNameOf(element) # ""
    THEN [name |-> toPascalCase(split(classNameOf(element), " ")[1]), counter |-> counter]
    ELSE IF HasKey(semanticMap, tagNameOf(element))
    THEN [name |-> Get(semanticMap, tagNameOf(element)), counter |-> counter]
    ELSE [name |-> "Component" \o ToString(counter + 1), counter |-> counter + 1]

(***************************************************************************)
(* extractComponentBoundaries                                              *)
(***************************************************************************)
TagSelector(t) == [kind |-> "tag", value |-> t]
RoleSelector(r) == [kind |-> "role", value |-> r]

semanticSelectors ==
    << TagSelector("header"), TagSelector("nav"), TagSelector("main"),
       TagSelector("aside"), TagSelector("footer"), TagSelector("article"),
       TagSelector("section"),
       RoleSelector("banner"), RoleSelector("navigation"), RoleSelector("main"),
       RoleSelector("complementary"), RoleSelector("contentinfo") >>

\* element.matches(selector) for the two selector forms in use
matches(element, selector) ==
    /\ element.nodeType = ELEMENT_NODE
    /\ IF selector.kind = "tag" THEN tagNameOf(element) = selector.value
       ELSE hasAttribute(element, "role") /\ getAttribute(element, "role") = selector.value

\* this.document.querySelectorAll(selector), in document order
querySelectorAll(dom, selector) ==
    Ascending({i \in 1..Len(dom) : matches(dom[i].node, selector)})

\* this.document.querySelectorAll('*[class]')
querySelectorAllWithClass(dom) ==
    Ascending({i \in 1..Len(dom) :
                /\ dom[i].node.nodeType = ELEMENT_NODE
                /\ hasAttribute(dom[i].node, "class")})

\* a regular expression of classPatterns, by the text a class string must
\* contain to match it, ignoring case: /nav(bar|igation)?/i matches exactly the
\* strings that contain "nav"
ClassPattern(text, name) == [pattern |-> text, name |-> name]

classPatterns ==
    << ClassPattern("header", "Header"), ClassPattern("nav", "Navigation"),
       ClassPattern("sidebar", "Sidebar"), ClassPattern("footer", "Footer"),
       ClassPattern("card", "Card"), ClassPattern("modal", "Modal"),
       ClassPattern("table", "DataTable"), ClassPattern("form", "Form"),
       ClassPattern("button", "Button"), ClassPattern("panel", "Panel"),
       ClassPattern("container", "Container") >>

\* pattern.test(className)
test(pattern, className) == includes(toLowerCase(className), pattern)

Boundary(type, role, id, className, el, name) ==
    [type |-> type, role |-> role, id |-> id, className |-> className,
     element |-> el, suggestedName |-> name]

\* the inner loop of the semantic pass: the elements els[k..] of one selector;
\* acc is <<boundaries, componentCounter>>
RECURSIVE pushSemantic(_, _, _, _)
pushSemantic(dom, els, k, acc) ==
    IF k > Len(els) THEN acc
    ELSE LET el == dom[els[k]].node
             named == suggestComponentName(el, acc[2])
         IN  pushSemantic(dom, els, k + 1,
                <<Append(acc[1], Boundary(tagNameOf(el), getAttribute(el, "role"), idOf(el),
                                          classNameOf(el), els[k], named.name)),
                  named.counter>>)

\* the outer loop of the semantic pass, from selector s on
RECURSIVE semanticPass(_, _, _)
semanticPass(dom, s, acc) ==
    IF s > Len(semanticSelectors) THEN acc
    ELSE semanticPass(dom, s + 1,
            pushSemantic(dom, querySelectorAll(dom, semanticSelectors[s]), 1, acc))

\* the duplicate check without the comparison of the class strings
exists_ByType(bs, el, className, type) ==
    \E k \in 1..Len(bs) : bs[k].element = el \/ bs[k].type = type

\* boundaries.some(b => b.element === el ||
\*                      (b.className === className && b.type === el.tagName.toLowerCase()))
exists(bs, el, className, type) ==
    \E k \in 1..Len(bs) :
        bs[k].element = el \/ (bs[k].className = className /\ bs[k].type = type)

\* the loop over the patterns without its break: the last pattern that matches
RECURSIVE firstMatchFrom_NoBreak(_, _, _)
firstMatchFrom_NoBreak(patterns, className, p) ==
    IF p > Len(patterns) THEN 0
    ELSE LET later == firstMatchFrom_NoBreak(patterns, className, p + 1)
         IN  IF later # 0 THEN later
             ELSE IF test(patterns[p].pattern, className) THEN p ELSE 0

\* the loop over the patterns, from pattern p on: the first pattern that
\* matches (the loop breaks there), 0 when none does
RECURSIVE firstMatchFrom(_, _, _)
firstMatchFrom(patterns, className, p) ==
    IF p > Len(patterns) THEN 0
    ELSE IF test(patterns[p].pattern, className) THEN p
    ELSE firstMatchFrom(patterns, className, p + 1)

firstMatch(patterns, className) == firstMatchFrom(patterns, className, 1)

\* the class-pattern pass over the elements els[k..]
RECURSIVE classPass(_, _, _, _, _)
classPass(dom, patterns, els, k, bs) ==
    IF k > Len(els) THEN bs
    ELSE LET el == dom[els[k]].node
             className == classNameOf(el)
             p == firstMatch(patterns, className)
         IN  classPass(dom, patterns, els, k + 1,
                IF p # 0 /\ ~exists(bs, els[k], className, tagNameOf(el))
                THEN Append(bs, Boundary(tagNameOf(el), Null, idOf(el), className,
                                         els[k], patterns[p].name))
                ELSE bs)

\* extractComponentBoundaries() with the class patterns `patterns` and
\* this.componentCounter = counter: the boundaries, and the counter afterwards
extractBoundariesWith(dom, patterns, counter) ==
    LET sem == semanticPass(dom, 1, <<<<>>, counter>>)
    IN  [boundaries |-> classPass(dom, patterns, querySelectorAllWithClass(dom), 1, sem[1]),
         counter |-> sem[2]]

extractComponentBoundaries(dom, counter) == extractBoundariesWith(dom, classPatterns, counter)

(***************************************************************************)
(* generateComponent, extractAllComponents                                 *)
(***************************************************************************)
\* this.options.generateTypeScript, as the constructor and the CLI leave it
generateTypeScript == TRUE

generateComponent(dom, element, componentName) ==
    LET jsx == elementToJSX(dom, element, 2)
        ext == IF generateTypeScript THEN "tsx" ELSE "jsx"
        propsType == IF generateTypeScript THEN ": React.FC" ELSE ""
    IN  [name |-> componentName,
         filename |-> componentName \o "." \o ext,
         content |-> "import React from 'react';\n\nexport const " \o componentName
                        \o propsType \o " = () => {\n  return (\n" \o jsx
                        \o "\n  );\n};\n\nexport default " \o componentName \o ";\n",
         jsx |-> jsx]

\* extractAllComponents() with this.componentCounter = counter: the components,
\* and the counter afterwards
extractAllComponents(dom, counter) ==
    LET found == extractComponentBoundaries(dom, counter)
    IN  [components |-> [k \in 1..Len(found.boundaries) |->
                            generateComponent(dom, found.boundaries[k].element,
                                              found.boundaries[k].suggestedName)],
         counter |-> found.counter]

(***************************************************************************)
(* The documents given to the converter: what the HTML parser can build    *)
(* from the nodes of a pool.                                               *)
(***************************************************************************)
Body == At(Element("BODY", <<>>), 0)

Max(S) == CHOOSE x \in S : \A y \in S : x >= y

Parent(dom, i) == Max({j \in 1..(i - 1) : dom[j].depth = dom[i].depth - 1})

\* elements that the HTML parser gives no children
VoidTags == SELF_CLOSING_TAGS
\* elements whose content the HTML parser reads as one text
RawTextTags == {"script", "style"}

WellFormed(dom) ==
    \A i \in 2..Len(dom) :
        LET parent == dom[Parent(dom, i)].node
        IN  /\ parent.nodeType = ELEMENT_NODE
            /\ tagNameOf(parent) \notin VoidTags
            /\ tagNameOf(parent) \in RawTextTags => dom[i].node.nodeType = TEXT_NODE
            /\ (dom[i].node.nodeType = TEXT_NODE /\ dom[i - 1].node.nodeType = TEXT_NODE)
                    => dom[i].depth # dom[i - 1].depth

Depths(k) ==
    {ds \in [1..k -> 1..k] :
        /\ k >= 1 => ds[1] = 1
        /\ \A i \in 2..k : ds[i] <= ds[i - 1] + 1}

DocumentsOfSize(pool, k) ==
    {dom \in {<<Body>> \o [i \in 1..k |-> At(ns[i], ds[i])] :
                ns \in [1..k -> pool], ds \in Depths(k)} : WellFormed(dom)}

Documents(pool, n) == UNION {DocumentsOfSize(pool, k) : k \in 0..n}

JsxNodes ==
    { Text("Hi"), Text(" "), Text("{x}"), Comment("note"),
      Element("SCRIPT", <<>>),
      Element("IMG", <<Attr("src", "/i.png"), Attr("data-reactid", "1")>>),
      Element("DIV", <<Attr("class", "a"), Attr("style", "color")>>),
      Element("SPAN", <<Attr("onclick", "go()"), Attr("id", "s")>>) }

BoundaryNodes ==
    { Element("HEADER", <<>>),
      Element("NAV", <<Attr("id", "main-nav"), Attr("class", "top bar")>>),
      Element("SECTION", <<Attr("class", "2-col wide")>>),
      Element("DIV", <<Attr("role", "banner")>>),
      Element("HEADER", <<Attr("role", "banner"), Attr("class", "site-header")>>),
      Element("DIV", <<Attr("class", "card")>>),
      Element("DIV", <<Attr("class", "card-header")>>),
      Element("DIV", <<Attr("class", "product card")>>),
      Element("DIV", <<Attr("class", "plain")>>) }

(***************************************************************************)
(* The document-level methods called on a converter with a document.       *)
(***************************************************************************)
\* convertHTMLToReact builds its result field by field, in this order.
ConvertBody ==
    /\ document # NoDocument
    /\ fullJSX = NotCalled
    /\ fullJSX' = Returned(convertBody(document))
    /\ UNCHANGED <<document, componentCounter, components, tree, boundaries, call, cliVars, uiVars>>

ExtractAllComponents ==
    /\ fullJSX # NotCalled
    /\ components = NotCalled
    /\ LET made == extractAllComponents(document, componentCounter)
       IN  /\ components' = Returned(made.components)
           /\ componentCounter' = made.counter
    /\ UNCHANGED <<document, fullJSX, tree, boundaries, call, cliVars, uiVars>>

GetComponentTree ==
    /\ components # NotCalled
    /\ tree = NotCalled
    /\ tree' = Returned(getComponentTree(document))
    /\ UNCHANGED <<document, componentCounter, fullJSX, components, boundaries, call, cliVars, uiVars>>

ExtractComponentBoundaries ==
    /\ tree # NotCalled
    /\ boundaries = NotCalled
    /\ LET found == extractComponentBoundaries(document, componentCounter)
       IN  /\ boundaries' = Returned(found.boundaries)
           /\ componentCounter' = found.counter
    /\ UNCHANGED <<document, fullJSX, components, tree, call, cliVars, uiVars>>

\* new HTMLToReactConverter().loadFromString(html)
Loaded(docs) ==
    /\ document \in docs
    /\ componentCounter = 0
    /\ fullJSX = NotCalled
    /\ components = NotCalled
    /\ tree = NotCalled
    /\ boundaries = NotCalled
    /\ call = NotCalled
    /\ NoCLI
    /\ NoUI

NextConverter ==
    \/ ConvertBody
    \/ ExtractAllComponents
    \/ GetComponentTree
    \/ ExtractComponentBoundaries

InitConvert == Loaded(Documents(JsxNodes, MaxNodes))
SpecConvert == InitConvert /\ [][NextConverter]_vars

InitBoundaries == Loaded(Documents(BoundaryNodes, MaxBoundaryNodes))
SpecBoundaries == InitBoundaries /\ [][NextConverter]_vars

\* documents whose text holds markup characters
ViewNodes ==
    { Text("Hi"), Text("<b>"),
      Element("SCRIPT", <<>>),
      Element("IMG", <<Attr("src", "/i.png")>>),
      Element("DIV", <<Attr("class", "a")>>) }

InitViews == Loaded(Documents(ViewNodes, MaxViewNodes))
SpecViews == InitViews /\ [][NextConverter]_vars

(***************************************************************************)
(* writeComponents and the CLI (require.main === module).                  *)
(*                                                                         *)
(* A file holds the document its HTML parses to, or the text written to    *)
(* it.  The option values null and undefined are the empty string: the CLI *)
(* only tests them for truthiness.                                         *)
(***************************************************************************)
HtmlFile(dom) == [kind |-> "html", dom |-> dom]
TextFile(text) == [kind |-> "text", text |-> text]

Falsy == ""

\* fs.existsSync(p)
existsSync(disk, p) == p \in DOMAIN disk.files \/ p \in disk.dirs

\* path.join(a, b) for two non-empty segments without dots
pathJoin(a, b) == a \o "/" \o b

\* the directories above path p
Ancestors(p) == {SubSeq(p, 1, i - 1) : i \in {j \in 2..Len(p) : CharAt(p, j) = "/"}}

\* fs.mkdirSync(dir, { recursive: true })
mkdirSync(disk, dir) == [disk EXCEPT !.dirs = @ \cup {dir} \cup Ancestors(dir)]

\* fs.writeFileSync(filePath, content) that succeeds
writeFileSync(disk, filePath, content) ==
    [disk EXCEPT !.files = (filePath :> TextFile(content)) @@ @]

\* path.resolve(SKILL_DIR, '../../../projects')
PROJECTS_DIR == "projects"

NoOptions ==
    [inputPath |-> Falsy, outputDir |-> Falsy, projectName |-> Falsy,
     pageName |-> Falsy, showTree |-> FALSE, help |-> FALSE]

\* args[++i]: undefined past the end of the arguments
ArgAt(args, i) == IF i <= Len(args) THEN args[i] ELSE Falsy

\* the for loop over the arguments; it ends at once on --help
RECURSIVE parseArgs(_, _, _)
parseArgs(args, i, o) ==
    IF i > Len(args) THEN o
    ELSE IF args[i] \in {"--input", "-i"}
    THEN parseArgs(args, i + 2, [o EXCEPT !.inputPath = ArgAt(args, i + 1)])
    ELSE IF args[i] \in {"--output", "-o"}
    THEN parseArgs(args, i + 2, [o EXCEPT !.outputDir = ArgAt(args, i + 1)])
    ELSE IF args[i] = "--project"
    THEN parseArgs(args, i + 2, [o EXCEPT !.projectName = ArgAt(args, i + 1)])
    ELSE IF args[i] = "--page"
    THEN parseArgs(args, i + 2, [o EXCEPT !.pageName = ArgAt(args, i + 1)])
    ELSE IF args[i] = "--tree"
    THEN parseArgs(args, i + 1, [o EXCEPT !.showTree = TRUE])
    ELSE IF args[i] \in {"--help", "-h"}
    THEN [o EXCEPT !.help = TRUE]
    ELSE parseArgs(args, i + 1, o)

\* the input path and the output directory after "Handle project-based paths"
projectInput(o) ==
    IF o.projectName # Falsy /\ o.pageName # Falsy
    THEN pathJoin(pathJoin(PROJECTS_DIR, o.projectName),
                  "references/html/" \o o.pageName \o ".html")
    ELSE o.inputPath

projectOutput(o) ==
    IF o.projectName # Falsy /\ o.outputDir = Falsy
    THEN pathJoin(pathJoin(PROJECTS_DIR, o.projectName),
                  "prototype/src/components/extracted")
    ELSE o.outputDir

\* the CLI before its first statement
Started ==
    [pc |-> "args", options |-> NoOptions, written |-> <<>>, exitCode |-> 0]

\* process.exit(code)
exit(c, code) == [c EXCEPT !.pc = "exited", !.exitCode = code]

\* the catch block that reports the error without another exit code
catchError_Exit0(c) == exit(c, 0)

\* a catch block that swallows the error: the run goes on
catchError_Swallow(c) == c

\* the catch block of the CLI: console.error and process.exit(1)
catchError(c) == exit(c, 1)

\* the argument loop, with process.exit(0) after the usage text
ParseArgs ==
    /\ cli.pc = "args"
    /\ LET o == parseArgs(argv, 1, NoOptions)
       IN  cli' = IF o.help THEN exit(cli, 0)
                  ELSE [cli EXCEPT !.pc = "paths", !.options = o]
    /\ UNCHANGED <<convVars, call, argv, uiVars, fs>>

\* the project-based paths and the test of inputPath
ResolveProjectPaths ==
    /\ cli.pc = "paths"
    /\ LET o == [cli.options EXCEPT !.inputPath = projectInput(cli.options),
                                    !.outputDir = projectOutput(cli.options)]
       IN  cli' = IF o.inputPath = Falsy
                  THEN exit([cli EXCEPT !.options = o], 1)
                  ELSE [cli EXCEPT !.pc = "load", !.options = o]
    /\ UNCHANGED <<convVars, call, argv, uiVars, fs>>

\* new HTMLToReactConverter(options) and converter.loadFromFile(htmlPath); the
\* error it throws, and the one of reading a directory, reach the catch block
LoadFromFile ==
    /\ cli.pc = "load"
    /\ IF cli.options.inputPath \in DOMAIN fs.files
       THEN /\ document' = fs.files[cli.options.inputPath].dom
            /\ cli' = [cli EXCEPT !.pc = "convert"]
       ELSE /\ document' = document
            /\ cli' = catchError(cli)
    /\ UNCHANGED <<componentCounter, fullJSX, components, tree, boundaries, call,
                   argv, uiVars, fs>>

\* if (showTree): the tree is printed, process.exit(0)
ShowTree ==
    /\ cli.pc = "convert" /\ boundaries # NotCalled
    /\ cli.options.showTree
    /\ cli' = exit(cli, 0)
    /\ UNCHANGED <<convVars, call, argv, uiVars, fs>>

\* no output directory: the tip is printed and the program ends
SkipWriting ==
    /\ cli.pc = "convert" /\ boundaries # NotCalled
    /\ ~cli.options.showTree
    /\ cli.options.outputDir = Falsy
    /\ cli' = exit(cli, 0)
    /\ UNCHANGED <<convVars, call, argv, uiVars, fs>>

\* the output directory made without looking at showTree, as if the tree were
\* printed after the files are written
MakeOutputDir_IgnoringTree ==
    /\ cli.pc = "convert" /\ boundaries # NotCalled
    /\ cli.options.outputDir # Falsy
    /\ IF existsSync(fs, cli.options.outputDir)
       THEN /\ cli' = [cli EXCEPT !.pc = "write"]
            /\ fs' = fs
       ELSE \/ /\ cli' = [cli EXCEPT !.pc = "write"]
               /\ fs' = mkdirSync(fs, cli.options.outputDir)
            \/ /\ cli' = catchError(cli)
               /\ fs' = fs
    /\ UNCHANGED <<convVars, call, argv, uiVars>>

\* writeComponents up to its loop: the output directory is made when it is
\* missing, which can fail
MakeOutputDir ==
    /\ cli.pc = "convert" /\ boundaries # NotCalled
    /\ ~cli.options.showTree
    /\ cli.options.outputDir # Falsy
    /\ IF existsSync(fs, cli.options.outputDir)
       THEN /\ cli' = [cli EXCEPT !.pc = "write"]
            /\ fs' = fs
       ELSE \/ /\ cli' = [cli EXCEPT !.pc = "write"]
               /\ fs' = mkdirSync(fs, cli.options.outputDir)
            \/ /\ cli' = catchError(cli)
               /\ fs' = fs
    /\ UNCHANGED <<convVars, call, argv, uiVars>>

\* one turn of the loop of writeComponents.  A write that fails throws; it has
\* left the file as it was, or opened and emptied it.
WriteComponent ==
    /\ cli.pc = "write"
    /\ Len(cli.written) < Len(components.value)
    /\ LET component == components.value[Len(cli.written) + 1]
           filePath == pathJoin(cli.options.outputDir, component.filename)
       IN  \/ /\ fs' = writeFileSync(fs, filePath, component.content)
              /\ cli' = [cli EXCEPT !.written = Append(@, filePath)]
           \/ /\ fs' \in {fs, writeFileSync(fs, filePath, "")}
              /\ cli' = catchError(cli)
    /\ UNCHANGED <<convVars, call, argv, uiVars>>

\* writeComponents returns, the written files are listed and the program ends
FinishRun ==
    /\ cli.pc = "write"
    /\ Len(cli.written) = Len(components.value)
    /\ cli' = exit(cli, 0)
    /\ UNCHANGED <<convVars, call, argv, uiVars, fs>>

\* the command lines
CommandLines ==
    { <<>>,
      <<"--help">>,
      <<"--input", "page.html">>,
      <<"-i", "page.html", "-o", "out">>,
      <<"--input", "missing.html", "--output", "out">>,
      <<"--input", "page.html", "--output", "out", "--tree">>,
      <<"--project", "app", "--page", "home">>,
      <<"--project", "app">>,
      <<"--output", "out", "--input">>,
      <<"--project", "ghost", "--page", "home", "-o", "out">>,
      <<"-o", "out", "-h", "-i", "page.html">> }

CliNodes ==
    { Element("DIV", <<Attr("role", "banner")>>),
      Element("HEADER", <<Attr("role", "banner"), Attr("class", "site-header")>>),
      Element("DIV", <<Attr("class", "card")>>),
      Element("DIV", <<Attr("class", "product card")>>) }

\* the disk before the run: the page at the two input paths, and the output
\* directory either missing or holding a component of an earlier run
Disk(dom, earlier) ==
    [files |-> IF earlier
               THEN ("page.html" :> HtmlFile(dom))
                    @@ ("projects/app/references/html/home.html" :> HtmlFile(dom))
                    @@ ("out/Card.tsx" :> TextFile("earlier"))
               ELSE ("page.html" :> HtmlFile(dom))
                    @@ ("projects/app/references/html/home.html" :> HtmlFile(dom)),
     dirs |-> IF earlier
              THEN {"out", "projects", "projects/app", "projects/app/references",
                    "projects/app/references/html"}
              ELSE {"projects", "projects/app", "projects/app/references",
                    "projects/app/references/html"}]

InitCLI ==
    /\ document = NoDocument
    /\ componentCounter = 0
    /\ fullJSX = NotCalled
    /\ components = NotCalled
    /\ tree = NotCalled
    /\ boundaries = NotCalled
    /\ call = NotCalled
    /\ cli = Started
    /\ NoUI
    /\ \E dom \in Documents(CliNodes, MaxCliNodes), earlier \in BOOLEAN :
          fs = Disk(dom, earlier)
    /\ argv \in CommandLines

NextCLI ==
    \/ ParseArgs
    \/ ResolveProjectPaths
    \/ LoadFromFile
    \/ ConvertBody
    \/ ExtractAllComponents
    \/ GetComponentTree
    \/ ExtractComponentBoundaries
    \/ ShowTree
    \/ SkipWriting
    \/ MakeOutputDir
    \/ WriteComponent
    \/ FinishRun

SpecCLI == InitCLI /\ [][NextCLI]_vars

(***************************************************************************)
(* The structural code injector (spec 4.6): parse, resolve, apply,         *)
(* serialize, write with a backup.  A generated file holds the syntax      *)
(* tree its text parses to, in pre-order with depths like a document.      *)
(***************************************************************************)
SourceFile(syntaxTree) == [kind |-> "source", tree |-> syntaxTree]

\* a JSX element of a generated file
JsxElement(name, className, id) == [name |-> name, className |-> className, id |-> id]

\* an InjectionSpec: target file, target selector, position, new component
InjectionSpec(file, selector, position, component) ==
    [file |-> file, selector |-> selector, position |-> position, component |-> component]

Positions == {"before", "after", "replace", "wrap", "first-child", "last-child"}

\* parse(file) and serialize(tree)
parse(file) == file.tree
serialize(syntaxTree) == SourceFile(syntaxTree)

\* the selector grammar: ComponentName, .class, #id
selectorMatches(element, selector) ==
    IF startsWith(selector, ".")
    THEN LET classes == split(element.className, " ")
         IN  \E k \in 1..Len(classes) : classes[k] = SubSeq(selector, 2, Len(selector))
    ELSE IF startsWith(selector, "#")
    THEN element.id = SubSeq(selector, 2, Len(selector))
    ELSE element.name = selector

Resolved(anchor) == [ok |-> TRUE, anchor |-> anchor, error |-> ""]
NotFound == [ok |-> FALSE, anchor |-> 0, error |-> "NotFound"]

\* resolving to the last match in document order
resolve_LastMatch(syntaxTree, selector) ==
    LET M == {i \in 1..Len(syntaxTree) : selectorMatches(syntaxTree[i].node, selector)}
    IN  IF M = {} THEN NotFound ELSE Resolved(Max(M))

\* resolve(tree, selector): the first match in document order, or NotFound
resolve(syntaxTree, selector) ==
    LET M == {i \in 1..Len(syntaxTree) : selectorMatches(syntaxTree[i].node, selector)}
    IN  IF M = {} THEN NotFound ELSE Resolved(Min(M))

\* the nodes from..to one level deeper
Nested(syntaxTree, from, to) ==
    [k \in 1..(to - from + 1) |->
        At(syntaxTree[from + k - 1].node, syntaxTree[from + k - 1].depth + 1)]

\* apply(position, anchor, newNode)
apply(syntaxTree, position, anchor, newNode) ==
    LET d == syntaxTree[anchor].depth
        last == SubtreeEnd(syntaxTree, anchor)
        before == SubSeq(syntaxTree, 1, anchor - 1)
        subtree == SubSeq(syntaxTree, anchor, last)
        after == SubSeq(syntaxTree, last + 1, Len(syntaxTree))
    IN  CASE position = "before" -> before \o <<At(newNode, d)>> \o subtree \o after
          [] position = "after" -> before \o subtree \o <<At(newNode, d)>> \o after
          [] position = "replace" -> before \o <<At(newNode, d)>> \o after
          [] position = "wrap" ->
                before \o <<At(newNode, d)>> \o Nested(syntaxTree, anchor, last) \o after
          [] position = "first-child" ->
                before \o <<syntaxTree[anchor], At(newNode, d + 1)>>
                       \o SubSeq(syntaxTree, anchor + 1, last) \o after
          [] position = "last-child" ->
                before \o subtree \o <<At(newNode, d + 1)>> \o after

\* write(text) with an automatic .backup of the original
writeWithBackup(disk, file, content) ==
    [disk EXCEPT !.files =
        (file :> content) @@ ((file \o ".backup") :> disk.files[file]) @@ @]

\* inject(file, componentName, selector, position): the whole operation
Inject ==
    /\ call.method = "inject" /\ ~call.done
    /\ LET syntaxTree == parse(fs.files[call.arg.file])
           found == resolve(syntaxTree, call.arg.selector)
       IN  /\ Return(found)
           /\ fs' = IF found.ok
                    THEN writeWithBackup(fs, call.arg.file,
                             serialize(apply(syntaxTree, call.arg.position, found.anchor,
                                             JsxElement(call.arg.component, "", ""))))
                    ELSE fs
    /\ UNCHANGED <<convVars, argv, uiVars, cli>>

\* the generated files: a root element and up to MaxTreeNodes elements below it
TreeNodes ==
    { JsxElement("Header", "", ""), JsxElement("Header", "hero wide", ""),
      JsxElement("Card", "", "top"), JsxElement("Card", "hero", "") }

SyntaxTreesOfSize(k) ==
    {<<At(JsxElement("div", "page", ""), 0)>> \o [i \in 1..k |-> At(ns[i], ds[i])] :
        ns \in [1..k -> TreeNodes], ds \in Depths(k)}

SyntaxTrees == UNION {SyntaxTreesOfSize(k) : k \in 0..MaxTreeNodes}

Selectors == {"Header", "Card", ".hero", "#top", "Footer"}

InitInject ==
    /\ document = NoDocument
    /\ componentCounter = 0
    /\ fullJSX = NotCalled
    /\ components = NotCalled
    /\ tree = NotCalled
    /\ boundaries = NotCalled
    /\ argv = <<>>
    /\ cli = NotCalled
    /\ NoUI
    /\ \E syntaxTree \in SyntaxTrees :
          fs = [files |-> ("Page.tsx" :> SourceFile(syntaxTree)), dirs |-> {}]
    /\ \E selector \in Selectors, position \in Positions :
          call = Pending("inject", InjectionSpec("Page.tsx", selector, position, "Banner"))

NextInject ==
    \/ Inject

SpecInject == InitInject /\ [][NextInject]_vars

(***************************************************************************)
(* The Amazon home page (HomePage) and its chat window (ChatbotWindow).    *)
(*                                                                         *)
(* page is the state of HomePage, chat the state of the mounted            *)
(* ChatbotWindow, timers the setTimeout callbacks not yet run.  Message    *)
(* ids and timestamps (Date.now()) are left out.                           *)
(***************************************************************************)
\* HomePage renders <ChatbotWindow> only when !isChatMinimized
Unmounted == [mounted |-> FALSE]

\* the content of a message: the template that was filled (kind), with its
\* query or product title (text), its count (n) and its amount of money
Content(kind, text, n, amount) == [kind |-> kind, text |-> text, n |-> n, amount |-> amount]

Message(type, content, products, actions) ==
    [type |-> type, content |-> content, products |-> products, actions |-> actions]

BotMessage(kind, text, n) == Message("bot", Content(kind, text, n, 0), <<>>, <<>>)

MessageAction(label, action, data) == [label |-> label, action |-> action, data |-> data]

\* useState<...>(null) of priceFilter
NoPriceFilter == [set |-> FALSE, min |-> 0, max |-> 0]

\* the state of a ChatbotWindow after its first render; its effects are still
\* to run
ChatbotWindowMounted ==
    [mounted |-> TRUE,
     messages |-> <<BotMessage("greeting", "", 0)>>,
     inputValue |-> "",
     isTyping |-> FALSE,
     cart |-> <<>>,
     orders |-> <<>>,
     view |-> "chat",
     priceFilter |-> NoPriceFilter,
     effectPending |-> TRUE]

\* cart.reduce((sum, item) => sum + item.quantity, 0)
RECURSIVE totalItems(_)
totalItems(cart) ==
    IF cart = <<>> THEN 0 ELSE cart[1].quantity + totalItems(Tail(cart))

\* what is on the screen
WindowDisplayed == chat.mounted /\ page.isChatOpen
ButtonDisplayed == ~page.isChatOpen \/ page.isChatMinimized

\* React runs the pending effects of a render before it handles the next event
EventReady == ~(chat.mounted /\ chat.effectPending)

\* the re-render of HomePage after a state change: the window is unmounted when
\* minimized, mounted anew when it was not there, and otherwise re-rendered with
\* a new onCartUpdate, which makes its cart effect run again
renderChatbot(p, c) ==
    IF p.isChatMinimized THEN Unmounted
    ELSE IF c.mounted THEN [c EXCEPT !.effectPending = TRUE]
    ELSE ChatbotWindowMounted

\* the callbacks of an unmounted window update nothing any more
orphaned(ts, p, c) ==
    IF p.isChatMinimized /\ c.mounted
    THEN [k \in 1..Len(ts) |-> [ts[k] EXCEPT !.live = FALSE]]
    ELSE ts

\* what a chat session is made of
Session(c) == [messages |-> c.messages, cart |-> c.cart, orders |-> c.orders]

Rerender(p) ==
    /\ page' = p
    /\ chat' = IF p = page THEN chat ELSE renderChatbot(p, chat)
    /\ timers' = IF p = page THEN timers ELSE orphaned(timers, p, chat)
    /\ hiddenSession' = IF chat'.mounted /\ p.isChatOpen THEN NotCalled
                        ELSE IF WindowDisplayed THEN Session(chat)
                        ELSE hiddenSession

\* a toggle button that forgets the minimized state
HandleToggleChat_AlwaysToggles ==
    /\ EventReady /\ ButtonDisplayed
    /\ Rerender([page EXCEPT !.isChatOpen = ~page.isChatOpen])
    /\ UNCHANGED <<convVars, call, cliVars, agentVars>>

\* the toggle button
HandleToggleChat ==
    /\ EventReady /\ ButtonDisplayed
    /\ Rerender(IF page.isChatMinimized
                THEN [page EXCEPT !.isChatMinimized = FALSE]
                ELSE [page EXCEPT !.isChatOpen = ~page.isChatOpen])
    /\ UNCHANGED <<convVars, call, cliVars, agentVars>>

\* the Minimize button of the window
HandleMinimize ==
    /\ EventReady /\ WindowDisplayed
    /\ Rerender([page EXCEPT !.isChatMinimized = TRUE])
    /\ UNCHANGED <<convVars, call, cliVars, agentVars>>

\* the Close button of the window
HandleClose ==
    /\ EventReady /\ WindowDisplayed
    /\ Rerender([page EXCEPT !.isChatOpen = FALSE, !.isChatMinimized = FALSE])
    /\ UNCHANGED <<convVars, call, cliVars, agentVars>>

\* the button 'Start Shopping with AI' of the page
StartShopping ==
    /\ EventReady
    /\ Rerender([page EXCEPT !.isChatOpen = TRUE])
    /\ UNCHANGED <<convVars, call, cliVars, agentVars>>

\* the effect on [cart, onCartUpdate]: onCartUpdate(totalItems), which is
\* handleCartUpdate
RunCartEffect ==
    /\ chat.mounted /\ chat.effectPending
    /\ page' = [page EXCEPT !.cartCount = totalItems(chat.cart)]
    /\ chat' = [chat EXCEPT !.effectPending = FALSE]
    /\ UNCHANGED <<convVars, call, cliVars, agentVars, timers, hiddenSession>>

\* setMessages(prev => [...prev, message])
appendMessage(c, message) == [c EXCEPT !.messages = Append(@, message)]

\* handleTrackOrder() in a render whose orders are `orders`
handleTrackOrder(c, orders) ==
    appendMessage(c, IF orders = <<>> THEN BotMessage("no_orders", "", 0)
                     ELSE BotMessage("orders", "", Len(orders)))

\* handleQuickAction(action)
handleQuickAction(c, action) ==
    IF action = "find" THEN appendMessage(c, BotMessage("find_help", "", 0))
    ELSE IF action = "track" THEN handleTrackOrder(c, c.orders)
    ELSE c

\* the quick-action buttons Find Products and Track Order
HandleQuickAction ==
    /\ EventReady /\ WindowDisplayed
    /\ Len(chat.messages) + Len(timers) < MaxMessages
    /\ \E action \in {"find", "track"} : chat' = handleQuickAction(chat, action)
    /\ UNCHANGED <<convVars, call, cliVars, agentVars, page, timers, hiddenSession>>

\* two entries of productDatabase (ids '1' and '4'); score is
\* rating * Math.log(reviewCount + 1), times ten and rounded
Product(id, title, price, score, category, brand) ==
    [id |-> id, title |-> title, price |-> price, score |-> score,
     category |-> category, brand |-> brand]

productDatabase ==
    << Product("1", "boAt Rockerz 450 Bluetooth On Ear Headphones with Mic",
               1299, 481, "headphones", "boAt"),
       Product("4",
               "HP 15s Ryzen 5 5500U 15.6 inch FHD Laptop (8GB RAM/512GB SSD)",
               42990, 382, "laptop", "HP") >>

categoryMap ==
    << <<"headphone", "headphones">>, <<"earphone", "headphones">>,
       <<"audio", "headphones">>, <<"laptop", "laptop">>,
       <<"computer", "laptop">>, <<"notebook", "laptop">>,
       <<"phone", "phone">>, <<"mobile", "phone">>, <<"smartphone", "phone">>,
       <<"watch", "watch">>, <<"smartwatch", "watch">>, <<"wearable", "watch">> >>

\* the category of the first keyword of categoryMap the query includes, or ""
categoryOf(lowerQuery) ==
    LET hits == {k \in 1..Len(categoryMap) : includes(lowerQuery, categoryMap[k][1])}
    IN IF hits = {} THEN "" ELSE categoryMap[Min(hits)][2]

\* results.sort by descending score (stable)
RECURSIVE sortByScore(_)
sortByScore(results) ==
    IF results = <<>> THEN <<>>
    ELSE LET best == Min({i \in 1..Len(results) :
                            \A j \in 1..Len(results) : results[j].score <= results[i].score})
         IN <<results[best]>> \o
            sortByScore(SubSeq(results, 1, best - 1) \o SubSeq(results, best + 1, Len(results)))

\* product.title.toLowerCase(), product.brand?.toLowerCase() and
\* product.category?.toLowerCase() of each product, by its id
lowerCased ==
    [id \in {productDatabase[k].id : k \in 1..Len(productDatabase)} |->
        LET product == productDatabase[CHOOSE k \in 1..Len(productDatabase) :
                                          productDatabase[k].id = id]
        IN [title |-> toLowerCase(product.title),
            brand |-> toLowerCase(product.brand),
            category |-> toLowerCase(product.category)]]

\* searchProducts(query, customPriceFilter) with the priceFilter of its render;
\* the filter that applies is passed as activeFilter
searchProducts(query, activeFilter) ==
    Once(toLowerCase(query), LAMBDA lowerQuery :
    Once(categoryOf(lowerQuery), LAMBDA category :
    LET keeps(product) ==
            /\ \/ includes(lowerCased[product.id].title, lowerQuery)
               \/ includes(lowerCased[product.id].brand, lowerQuery)
               \/ includes(lowerCased[product.id].category, lowerQuery)
            /\ category = "" \/ product.category = category
            /\ \/ ~activeFilter.set
               \/ product.price >= activeFilter.min /\ product.price <= activeFilter.max
    IN Once(SelectSeq(productDatabase, keeps), LAMBDA kept :
       Once(sortByScore(kept), LAMBDA results :
            SubSeq(results, 1, IF Len(results) < 5 THEN Len(results) ELSE 5)))))

\* a showProducts that says nothing when nothing was found
showProducts_NothingFound(c, query, products) ==
    Once(products, LAMBDA found :
        IF Len(found) > 0
        THEN appendMessage(c, Message("bot", Content("found", query, Len(found), 0),
                                      found, <<>>))
        ELSE c)

\* showProducts(query, products)
showProducts(c, query, products) ==
    Once(products, LAMBDA found :
        appendMessage(c, IF Len(found) > 0
                         THEN Message("bot", Content("found", query, Len(found), 0),
                                      found, <<>>)
                         ELSE BotMessage("not_found", query, 0)))

\* the update function of setCart in handleAddToCart and handleBuyNow
addItem(prev, product) ==
    IF \E k \in 1..Len(prev) : prev[k].product.id = product.id
    THEN [k \in 1..Len(prev) |->
            IF prev[k].product.id = product.id
            THEN [prev[k] EXCEPT !.quantity = @ + 1] ELSE prev[k]]
    ELSE Append(prev, [product |-> product, quantity |-> 1])

\* setCart(...): the cart effect runs after the render when the cart changed
setCart(c, cart) ==
    [c EXCEPT !.cart = cart, !.effectPending = @ \/ cart # c.cart]

\* handleAddToCart(product)
handleAddToCart(c, product) ==
    appendMessage(setCart(c, addItem(c.cart, product)),
                  Message("bot", Content("added", product.title, totalItems(c.cart) + 1, 0),
                          <<>>,
                          << MessageAction("View Cart", "view_cart", ""),
                             MessageAction("Continue Shopping", "continue", "") >>))

\* handleBuyNow(product)
handleBuyNow(c, product) ==
    appendMessage(setCart(c, addItem(c.cart, product)),
                  Message("bot", Content("checkout_for", product.title, 0, product.price),
                          <<>>,
                          << MessageAction("Confirm Order", "confirm_order", product.id),
                             MessageAction("Cancel", "cancel", "") >>))

\* handleConfirmOrder(product)
handleConfirmOrder(c, product) ==
    appendMessage([c EXCEPT !.orders = Append(@, [product |-> product, quantity |-> 1,
                                                  status |-> "confirmed"])],
                  BotMessage("order_confirmed", product.title, product.price))

RECURSIVE cartTotal(_)
cartTotal(cart) ==
    IF cart = <<>> THEN 0
    ELSE cart[1].product.price * cart[1].quantity + cartTotal(Tail(cart))

\* handleViewCart() in a render whose cart is `cart`
handleViewCart(c, cart) ==
    appendMessage(c, IF Len(cart) = 0
                     THEN Message("bot", Content("cart_empty", "", 0, 0), <<>>,
                                  << MessageAction("Browse Laptops", "search", "laptop"),
                                     MessageAction("Browse Phones", "search", "phone"),
                                     MessageAction("Browse Headphones", "search", "headphones") >>)
                     ELSE Message("bot", Content("cart", "", Len(cart), cartTotal(cart)), <<>>,
                                  << MessageAction("Proceed to Checkout", "checkout", ""),
                                     MessageAction("Clear Cart", "clear_cart", "") >>))

productById(id) == productDatabase[CHOOSE k \in 1..Len(productDatabase) : productDatabase[k].id = id]

\* handleActionClick(action, data)
handleActionClick(c, action, data) ==
    CASE action = "view_cart" -> handleViewCart(c, c.cart)
      [] action = "continue" -> appendMessage(c, BotMessage("what_else", "", 0))
      [] action = "confirm_order" ->
            IF data # "" THEN handleConfirmOrder(c, productById(data)) ELSE c
      [] action = "cancel" -> appendMessage(c, BotMessage("cancelled", "", 0))
      [] action = "search" ->
            IF data # "" THEN showProducts(c, data, searchProducts(data, c.priceFilter)) ELSE c
      [] action = "checkout" -> appendMessage(c, BotMessage("checkout", "", 0))
      [] action = "clear_cart" -> appendMessage(setCart(c, <<>>), BotMessage("cart_cleared", "", 0))
      [] OTHER -> c

\* query.match(/\d+/) and parseInt of it: the first run of digits, or -1
DigitValue(ch) == CHOOSE d \in 0..9 : ToString(d) = ch

RECURSIVE digitsFrom(_, _, _)
digitsFrom(s, i, acc) ==
    IF i <= Len(s) /\ IsDigit(CharAt(s, i))
    THEN digitsFrom(s, i + 1, acc * 10 + DigitValue(CharAt(s, i)))
    ELSE acc

priceMatch(query) ==
    LET at == {i \in 1..Len(query) : IsDigit(CharAt(query, i))}
    IN IF at = {} THEN -1 ELSE digitsFrom(query, Min(at), 0)

\* the callback that handleSend hands to setTimeout: it sees the cart, orders
\* and priceFilter of the render that handled the send
botResponse(c, timer) ==
    Once(toLowerCase(timer.query), LAMBDA q :
    LET answered ==
            IF includes(q, "track") \/ includes(q, "order")
            THEN handleTrackOrder(c, timer.orders)
            ELSE IF includes(q, "cart") THEN handleViewCart(c, timer.cart)
            ELSE IF includes(q, "cheap") \/ includes(q, "under")
            THEN LET maxPrice == priceMatch(timer.query)
                     tempFilter == IF maxPrice >= 0
                                   THEN [set |-> TRUE, min |-> 0, max |-> maxPrice]
                                   ELSE NoPriceFilter
                     filtered == IF maxPrice >= 0
                                 THEN [c EXCEPT !.priceFilter = tempFilter] ELSE c
                 IN showProducts(filtered, timer.query, searchProducts(timer.query, tempFilter))
            ELSE showProducts(c, timer.query, searchProducts(timer.query, timer.priceFilter))
    IN [answered EXCEPT !.isTyping = FALSE])

\* room for one more message, counting the answers still to come
Room(k) == Len(chat.messages) + Len(timers) + k <= MaxMessages

\* what the user types into the input
Inputs == {" ", "laptop", "my order", "cart", "Under 2000"}

\* onChange of the input
ChangeInput ==
    /\ EventReady /\ WindowDisplayed
    /\ \E value \in Inputs \cup {""} :
          /\ value # chat.inputValue
          /\ chat' = [chat EXCEPT !.inputValue = value]
    /\ UNCHANGED <<convVars, call, cliVars, agentVars, page, timers, hiddenSession>>

\* handleSend(), by the Enter key (the send button is disabled on blank input)
HandleSend ==
    /\ EventReady /\ WindowDisplayed
    /\ IF trim(chat.inputValue) = ""
       THEN UNCHANGED <<chat, timers>>
       ELSE /\ Room(2)
            /\ chat' = [appendMessage(chat, Message("user", Content("said", chat.inputValue, 0, 0),
                                                    <<>>, <<>>))
                          EXCEPT !.inputValue = "", !.isTyping = TRUE]
            /\ timers' = Append(timers, [query |-> chat.inputValue, cart |-> chat.cart,
                                         orders |-> chat.orders,
                                         priceFilter |-> chat.priceFilter, live |-> TRUE])
    /\ UNCHANGED <<convVars, call, cliVars, agentVars, page, hiddenSession>>

\* a timer of handleSend fires (all delays are 1000 ms: first set, first run)
TimerFires ==
    /\ EventReady
    /\ timers # <<>>
    /\ timers' = Tail(timers)
    /\ chat' = IF timers[1].live THEN botResponse(chat, timers[1]) ELSE chat
    /\ hiddenSession' = IF hiddenSession # NotCalled /\ chat.mounted
                        THEN Session(chat') ELSE hiddenSession
    /\ UNCHANGED <<convVars, call, cliVars, agentVars, page>>

\* Add to Cart on a product card of a message
HandleAddToCart ==
    /\ EventReady /\ WindowDisplayed /\ Room(1)
    /\ \E m \in 1..Len(chat.messages) : \E k \in 1..Len(chat.messages[m].products) :
          chat' = handleAddToCart(chat, chat.messages[m].products[k])
    /\ UNCHANGED <<convVars, call, cliVars, agentVars, page, timers, hiddenSession>>

\* Buy Now on a product card of a message
HandleBuyNow ==
    /\ EventReady /\ WindowDisplayed /\ Room(1)
    /\ \E m \in 1..Len(chat.messages) : \E k \in 1..Len(chat.messages[m].products) :
          chat' = handleBuyNow(chat, chat.messages[m].products[k])
    /\ UNCHANGED <<convVars, call, cliVars, agentVars, page, timers, hiddenSession>>

\* a button of message.actions
HandleActionClick ==
    /\ EventReady /\ WindowDisplayed /\ Room(1)
    /\ \E m \in 1..Len(chat.messages) : \E k \in 1..Len(chat.messages[m].actions) :
          chat' = handleActionClick(chat, chat.messages[m].actions[k].action,
                                    chat.messages[m].actions[k].data)
    /\ UNCHANGED <<convVars, call, cliVars, agentVars, page, timers, hiddenSession>>

\* the page is loaded: the chat is closed and the window is mounted, hidden
InitChat ==
    /\ document = NoDocument
    /\ componentCounter = 0
    /\ fullJSX = NotCalled
    /\ components = NotCalled
    /\ tree = NotCalled
    /\ boundaries = NotCalled
    /\ call = NotCalled
    /\ NoCLI
    /\ page = [isChatOpen |-> FALSE, isChatMinimized |-> FALSE, cartCount |-> 0]
    /\ chat = ChatbotWindowMounted
    /\ timers = <<>>
    /\ hiddenSession = NotCalled
    /\ agent = NotCalled
    /\ agentTimers = <<>>

NextChat ==
    \/ HandleToggleChat
    \/ HandleMinimize
    \/ HandleClose
    \/ StartShopping
    \/ RunCartEffect
    \/ HandleQuickAction
    \/ ChangeInput
    \/ HandleSend
    \/ TimerFires
    \/ HandleAddToCart
    \/ HandleBuyNow
    \/ HandleActionClick

SpecChat == InitChat /\ [][NextChat]_vars

(***************************************************************************)
(* The chat panel of the Sprouts prototype (ChatAgent).                    *)
(*                                                                         *)
(* agent is the state of the component, agentTimers its setTimeout         *)
(* callbacks not yet run.  Message ids and timestamps are left out.        *)
(***************************************************************************)
AgentMessage(role, content) == [role |-> role, content |-> content]

\* the four answers of the simulated AI, each by its first words
responses ==
    << "Based on the account data", "I found that this account has 1 contact",
       "Looking at the signals data", "This account was added by Goutham Joshi" >>

quickActions ==
    << "Summarize this account", "Draft outreach email", "Find competitors",
       "Suggest next steps" >>

\* the state of a ChatAgent after its first render
ChatAgentMounted ==
    [isOpen |-> FALSE,
     messages |-> <<AgentMessage("assistant", "Hi! I'm your AI assistant.")>>,
     input |-> "",
     isTyping |-> FALSE]

\* room for k more messages, counting the answers still to come
AgentRoom(k) == Len(agent.messages) + Len(agentTimers) + k <= MaxMessages

\* what the user types into the input of the panel
AgentInputs == {"", " ", "hi"}

\* the floating button
AgentOpen ==
    /\ ~agent.isOpen
    /\ agent' = [agent EXCEPT !.isOpen = TRUE]
    /\ UNCHANGED <<convVars, call, cliVars, chatVars, agentTimers>>

\* the X button of the panel
AgentClose ==
    /\ agent.isOpen
    /\ agent' = [agent EXCEPT !.isOpen = FALSE]
    /\ UNCHANGED <<convVars, call, cliVars, chatVars, agentTimers>>

\* a quick-action button: setInput(action)
AgentQuickAction ==
    /\ agent.isOpen
    /\ \E k \in 1..Len(quickActions) : agent' = [agent EXCEPT !.input = quickActions[k]]
    /\ UNCHANGED <<convVars, call, cliVars, chatVars, agentTimers>>

\* onChange of the input
AgentChangeInput ==
    /\ agent.isOpen
    /\ \E value \in AgentInputs :
          /\ value # agent.input
          /\ agent' = [agent EXCEPT !.input = value]
    /\ UNCHANGED <<convVars, call, cliVars, chatVars, agentTimers>>

\* handleSend(), by the Enter key (the send button is disabled on blank input)
AgentHandleSend ==
    /\ agent.isOpen
    /\ IF trim(agent.input) = ""
       THEN UNCHANGED <<agent, agentTimers>>
       ELSE /\ AgentRoom(2)
            /\ agent' = [agent EXCEPT !.messages = Append(@, AgentMessage("user", agent.input)),
                                      !.input = "", !.isTyping = TRUE]
            /\ agentTimers' = Append(agentTimers, [query |-> agent.input])
    /\ UNCHANGED <<convVars, call, cliVars, chatVars>>

\* the answer of the callback: responses[Math.floor(Math.random() * 4)]
aiMessage(a, k) ==
    [a EXCEPT !.messages = Append(@, AgentMessage("assistant", responses[k])),
              !.isTyping = FALSE]

\* a timer of handleSend fires (all delays are 1500 ms: first set, first run)
AgentTimerFires ==
    /\ agentTimers # <<>>
    /\ \E k \in 1..Len(responses) : agent' = aiMessage(agent, k)
    /\ agentTimers' = Tail(agentTimers)
    /\ UNCHANGED <<convVars, call, cliVars, chatVars>>

\* one of the two pages is loaded
InitSend ==
    /\ document = NoDocument
    /\ componentCounter = 0
    /\ fullJSX = NotCalled
    /\ components = NotCalled
    /\ tree = NotCalled
    /\ boundaries = NotCalled
    /\ call = NotCalled
    /\ NoCLI
    /\ hiddenSession = NotCalled
    /\ timers = <<>>
    /\ agentTimers = <<>>
    /\ \/ /\ page = [isChatOpen |-> FALSE, isChatMinimized |-> FALSE, cartCount |-> 0]
          /\ chat = ChatbotWindowMounted
          /\ agent = NotCalled
       \/ /\ page = NotCalled
          /\ chat = NotCalled
          /\ agent = ChatAgentMounted

OnHomePage == page # NotCalled
OnSprouts == agent # NotCalled

NextSend ==
    \/ OnHomePage /\ HandleToggleChat
    \/ OnHomePage /\ HandleMinimize
    \/ OnHomePage /\ HandleClose
    \/ OnHomePage /\ StartShopping
    \/ OnHomePage /\ RunCartEffect
    \/ OnHomePage /\ HandleQuickAction
    \/ OnHomePage /\ ChangeInput
    \/ OnHomePage /\ HandleSend
    \/ OnHomePage /\ TimerFires
    \/ OnHomePage /\ HandleAddToCart
    \/ OnHomePage /\ HandleBuyNow
    \/ OnHomePage /\ HandleActionClick
    \/ OnSprouts /\ AgentOpen
    \/ OnSprouts /\ AgentClose
    \/ OnSprouts /\ AgentQuickAction
    \/ OnSprouts /\ AgentChangeInput
    \/ OnSprouts /\ AgentHandleSend
    \/ OnSprouts /\ AgentTimerFires

\* a timeout that was set runs when its delay has elapsed, and React runs the
\* effects of a render; a timeout is only held back while effects run, so no
\* sequence of renders keeps it from running
SpecSend ==
    /\ InitSend
    /\ [][NextSend]_vars
    /\ SF_vars(OnHomePage /\ TimerFires)
    /\ WF_vars(OnHomePage /\ RunCartEffect)
    /\ WF_vars(OnSprouts /\ AgentTimerFires)

(***************************************************************************)
(* Claims about buildAttributes and parseStyleString (SpecAttrs).          *)
(***************************************************************************)
\* the name of an emitted JSX attribute: the text before its '='
EmittedName(e) ==
    LET i == IndexOfChar(e, "=") IN IF i = 0 THEN e ELSE SubSeq(e, 1, i - 1)

IsStripped(a) ==
    LET n == toLowerCase(a.name)
    IN  startsWith(n, "on") \/ startsWith(n, "data-react") \/ startsWith(n, "data-v-")

ExpectedJSXName(a) ==
    LET n == toLowerCase(a.name)
    IN  IF HasKey(JSX_ATTR_MAP, n) THEN Get(JSX_ATTR_MAP, n) ELSE n

TimesEmitted(ret, n) == Cardinality({i \in 1..Len(ret) : EmittedName(ret[i]) = n})

BuildAttributesReturned == call.method = "buildAttributes" /\ call.done

\* C8: buildAttributes emits no attribute whose source name starts with 'on',
\* 'data-react' or 'data-v-', and emits every other non-style source attribute
\* exactly once under its JSX name (JSX_ATTR_MAP[name] when listed, otherwise the
\* lower-cased source name).
C8_StripsAndRenames ==
    BuildAttributesReturned =>
        \A i \in 1..Len(call.arg.attributes) :
            LET a == call.arg.attributes[i]
            IN  /\ IsStripped(a) => TimesEmitted(call.ret, ExpectedJSXName(a)) = 0
                /\ (~IsStripped(a) /\ toLowerCase(a.name) # "style")
                      => TimesEmitted(call.ret, ExpectedJSXName(a)) = 1

\* an element with an event handler and a class went through buildAttributes
C8_Witness ==
    /\ BuildAttributesReturned
    /\ \E i \in 1..Len(call.arg.attributes) : call.arg.attributes[i].name = "onclick"
    /\ \E i \in 1..Len(call.arg.attributes) : call.arg.attributes[i].name = "class"
    /\ call.ret = <<"className=\"btn primary\"">>

\* the declarations of a style string as CSS reads them: the pieces between
\* ';', each split at its first ':' into a property and the whole rest
DeclProperty(piece) == trim(SubSeq(piece, 1, IndexOfChar(piece, ":") - 1))
DeclValue(piece) == trim(SubSeq(piece, IndexOfChar(piece, ":") + 1, Len(piece)))

IsDeclaration(piece) ==
    IndexOfChar(piece, ":") > 0 /\ DeclProperty(piece) # "" /\ DeclValue(piece) # ""

Declarations(s) == SelectSeq(split(s, ";"), IsDeclaration)

ParseStyleStringReturned == call.method = "parseStyleString" /\ call.done

\* C9: parseStyleString maps a style string to a property map that holds, for
\* every 'property: value' declaration of the string, the camel-cased property
\* with its complete declared value (the last declaration of a property counts);
\* a string with no declaration gives null.
C9_MapHoldsCompleteValues ==
    ParseStyleStringReturned =>
        LET ds == Declarations(call.arg)
        IN  IF ds = <<>> THEN call.ret = Null
            ELSE /\ call.ret # Null
                 /\ \A i \in 1..Len(ds) :
                        (\A j \in (i + 1)..Len(ds) :
                            DeclProperty(ds[j]) # DeclProperty(ds[i]))
                        => /\ HasKey(call.ret.entries, camelProperty(DeclProperty(ds[i])))
                           /\ Get(call.ret.entries, camelProperty(DeclProperty(ds[i])))
                                = DeclValue(ds[i])

(***************************************************************************)
(* Reading JSX back: the elements of a JSX text in document order, each    *)
(* with its depth, its tag and the HTML names of its attributes, as React  *)
(* renders them (className back to class, htmlFor back to for, ...).       *)
(***************************************************************************)
htmlName(jsx) ==
    LET K == {k \in 1..Len(JSX_ATTR_MAP) : JSX_ATTR_MAP[k][2] = jsx}
    IN  IF K = {} THEN jsx ELSE JSX_ATTR_MAP[Min(K)][1]

\* the last character of the name that starts at i
RECURSIVE NameEnd(_, _)
NameEnd(s, i) ==
    IF i > Len(s) \/ CharAt(s, i) \in {" ", "=", ">", "/", "\n"} THEN i - 1
    ELSE NameEnd(s, i + 1)

\* the '}' that closes the expression opened before i, at nesting depth d;
\* a quoted string inside it is passed over; 0 when it is not closed
RECURSIVE BraceEnd(_, _, _)
BraceEnd(s, i, d) ==
    IF i > Len(s) THEN 0
    ELSE LET c == CharAt(s, i)
         IN  IF c = "\""
             THEN LET q == IndexFrom(s, "\"", i + 1)
                  IN  IF q = 0 THEN 0 ELSE BraceEnd(s, q + 1, d)
             ELSE IF c = "{" THEN BraceEnd(s, i + 1, d + 1)
             ELSE IF c = "}" THEN IF d = 1 THEN i ELSE BraceEnd(s, i + 1, d - 1)
             ELSE BraceEnd(s, i + 1, d)

\* the last character of the attribute value that starts at i
ValueEnd(s, i) ==
    IF i > Len(s) THEN 0
    ELSE IF CharAt(s, i) = "\"" THEN IndexFrom(s, "\"", i + 1)
    ELSE IF CharAt(s, i) = "{" THEN BraceEnd(s, i + 1, 1)
    ELSE 0

TagFail == [ok |-> FALSE, pos |-> 0, names |-> {}, selfClosing |-> FALSE]

\* the attributes of an opening tag from position i to its '>'
RECURSIVE ParseAttrs(_, _, _)
ParseAttrs(s, i, names) ==
    IF i > Len(s) THEN TagFail
    ELSE LET c == CharAt(s, i)
         IN  IF c = " " THEN ParseAttrs(s, i + 1, names)
             ELSE IF c = ">"
             THEN [ok |-> TRUE, pos |-> i, names |-> names, selfClosing |-> FALSE]
             ELSE IF c = "/"
             THEN IF i < Len(s) /\ CharAt(s, i + 1) = ">"
                  THEN [ok |-> TRUE, pos |-> i + 1, names |-> names, selfClosing |-> TRUE]
                  ELSE TagFail
             ELSE LET e == NameEnd(s, i)
                      name == htmlName(SubSeq(s, i, e))
                  IN  IF e < i \/ name \in names THEN TagFail
                      ELSE IF e < Len(s) /\ CharAt(s, e + 1) = "="
                      THEN LET v == ValueEnd(s, e + 2)
                           IN  IF v = 0 THEN TagFail
                               ELSE ParseAttrs(s, v + 1, names \cup {name})
                      ELSE ParseAttrs(s, e + 1, names \cup {name})

ParsedElement(d, t, as) == [depth |-> d, tag |-> t, attrs |-> as]
ParseFail == [ok |-> FALSE, nodes |-> <<>>]

\* the elements of s from position i on; open holds the tags not yet closed.
\* With strict, a '{', '}' or '>' in text is an error, as it is for a JSX parser;
\* without, it is read as text.
RECURSIVE ParseNodes(_, _, _, _, _)
ParseNodes(s, i, open, acc, strict) ==
    IF i > Len(s) THEN [ok |-> open = <<>>, nodes |-> acc]
    ELSE LET c == CharAt(s, i)
         IN  IF c = "<" /\ i < Len(s) /\ CharAt(s, i + 1) = "/"
             THEN LET e == IndexFrom(s, ">", i)
                  IN  IF e = 0 \/ open = <<>> \/ SubSeq(s, i + 2, e - 1) # open[Len(open)]
                      THEN ParseFail
                      ELSE ParseNodes(s, e + 1, SubSeq(open, 1, Len(open) - 1), acc, strict)
             ELSE IF c = "<"
             THEN LET e == NameEnd(s, i + 1)
                      tag == SubSeq(s, i + 1, e)
                      as == ParseAttrs(s, e + 1, {})
                  IN  IF tag = "" \/ ~as.ok THEN ParseFail
                      ELSE ParseNodes(s, as.pos + 1,
                                      IF as.selfClosing THEN open ELSE Append(open, tag),
                                      Append(acc, ParsedElement(Len(open), tag, as.names)),
                                      strict)
             ELSE IF strict /\ c \in {"{", "}", ">"} THEN ParseFail
             ELSE ParseNodes(s, i + 1, open, acc, strict)

ReParse(jsx) == ParseNodes(jsx, 1, <<>>, <<>>, TRUE)
ReadTags(jsx) == ParseNodes(jsx, 1, <<>>, <<>>, FALSE)

(***************************************************************************)
(* The source document as a tree of elements.                              *)
(***************************************************************************)
IsElement(dom, i) == dom[i].node.nodeType = ELEMENT_NODE

\* node i is, or lies inside, an element with a skipped tag
InSkipped(dom, i) ==
    \E j \in 1..i :
        /\ IsElement(dom, j) /\ tagNameOf(dom[j].node) \in SKIP_TAGS
        /\ j <= i /\ i <= SubtreeEnd(dom, j)

AttrNames(element) ==
    {toLowerCase(element.attributes[k].name) : k \in 1..Len(element.attributes)}

\* the attributes that the converter is meant to keep: no event handler, no
\* framework-internal attribute, no style attribute without a declaration
KeptAttrNames(element) ==
    {toLowerCase(element.attributes[k].name) : k \in
        {k \in 1..Len(element.attributes) :
            LET a == element.attributes[k]
            IN  /\ ~IsStripped(a)
                /\ toLowerCase(a.name) = "style" => Declarations(a.value) # <<>>}}

\* every element of the document, in document order
SourceElements(dom) ==
    LET I == Ascending({i \in 1..Len(dom) : IsElement(dom, i)})
    IN  [k \in 1..Len(I) |->
            ParsedElement(dom[I[k]].depth, tagNameOf(dom[I[k]].node),
                          AttrNames(dom[I[k]].node))]

\* the elements outside skipped subtrees, with the attributes that are kept
KeptElements(dom) ==
    LET I == Ascending({i \in 1..Len(dom) : IsElement(dom, i) /\ ~InSkipped(dom, i)})
    IN  [k \in 1..Len(I) |->
            ParsedElement(dom[I[k]].depth, tagNameOf(dom[I[k]].node),
                          KeptAttrNames(dom[I[k]].node))]

HasChar(s, cs) == \E i \in 1..Len(s) : CharAt(s, i) \in cs

\* no text holds '<' or '>', no text inside a skipped element holds '{' or '}',
\* no attribute value holds '"'
MarkupFree(dom) ==
    \A i \in 1..Len(dom) :
        /\ dom[i].node.nodeType = TEXT_NODE =>
              /\ ~HasChar(dom[i].node.data, {"<", ">"})
              /\ InSkipped(dom, i) => ~HasChar(dom[i].node.data, {"{", "}"})
        /\ \A k \in 1..Len(dom[i].node.attributes) :
              ~HasChar(dom[i].node.attributes[k].value, {"\""})

TagsOnly(nodes) == [k \in 1..Len(nodes) |-> <<nodes[k].depth, nodes[k].tag>>]

\* the nodes of a component tree in pre-order, each with its depth
RECURSIVE FlattenTree(_, _)
RECURSIVE FlattenTrees(_, _)
FlattenTree(node, depth) ==
    <<ParsedElement(depth, node.tag, {})>> \o FlattenTrees(node.children, depth + 1)
FlattenTrees(nodes, depth) ==
    IF nodes = <<>> THEN <<>>
    ELSE FlattenTree(nodes[1], depth) \o FlattenTrees(Tail(nodes), depth)

C2_ChildOrderPreserved ==
    /\ fullJSX # NotCalled =>
          /\ ReadTags(fullJSX.value).ok
          /\ TagsOnly(ReadTags(fullJSX.value).nodes) = TagsOnly(KeptElements(document))
    /\ tree # NotCalled =>
          TagsOnly(FlattenTree(tree.value, 0)) = TagsOnly(KeptElements(document))

\* a parent with two different element children, in both views
C2_Witness ==
    /\ tree # NotCalled
    /\ Len(document) = 4
    /\ document[2].node.tagName = "DIV" /\ document[2].depth = 1
    /\ document[3].node.tagName = "IMG" /\ document[3].depth = 2
    /\ document[4].node.tagName = "SPAN" /\ document[4].depth = 2
    /\ TagsOnly(FlattenTree(tree.value, 0))
          = << <<0, "body">>, <<1, "div">>, <<2, "img">>, <<2, "span">> >>
    /\ TagsOnly(ReadTags(fullJSX.value).nodes) = TagsOnly(FlattenTree(tree.value, 0))

(***************************************************************************)
(* Claims about extractComponentBoundaries (SpecBoundaries).               *)
(***************************************************************************)
\* the class patterns that are varied, and the pattern lists built from them:
\* every subset in every order
VariedPatterns == {classPatterns[1], classPatterns[5]}

RECURSIVE Orderings(_)
Orderings(S) ==
    IF S = {} THEN {<<>>}
    ELSE UNION {{<<x>> \o rest : rest \in Orderings(S \ {x})} : x \in S}

PatternLists == UNION {Orderings(S) : S \in SUBSET VariedPatterns}

PatternsOf(L) == {L[k] : k \in 1..Len(L)}

\* the boundaries found by a fresh converter with the pattern list L
DetectedWith(dom, L) ==
    LET bs == extractBoundariesWith(dom, L, 0).boundaries
    IN  {<<bs[k].element, bs[k].suggestedName>> : k \in 1..Len(bs)}

ElementsOf(detected) == {b[1] : b \in detected}

BoundaryElements(bs) == {bs[k].element : k \in 1..Len(bs)}

\* C3 as stated: every boundary (element and suggested name) found with a
\* pattern list P is also found with every list Q that contains the patterns
\* of P.
C3_BoundariesMonotonic ==
    boundaries # NotCalled =>
        LET D == [L \in PatternLists |-> DetectedWith(document, L)]
        IN  \A P, Q \in PatternLists :
                PatternsOf(P) \subseteq PatternsOf(Q) => D[P] \subseteq D[Q]

\* C3 (amended): every element found as a boundary with a pattern list P is also
\* found with every list Q that contains the patterns of P, and with the
\* converter's own list; its suggested name may differ.
C3_BoundaryElementsMonotonic ==
    boundaries # NotCalled =>
        LET E == [L \in PatternLists |-> ElementsOf(DetectedWith(document, L))]
        IN  /\ \A P, Q \in PatternLists :
                  PatternsOf(P) \subseteq PatternsOf(Q) => E[P] \subseteq E[Q]
            /\ \A P \in PatternLists : E[P] \subseteq BoundaryElements(boundaries.value)

\* an element that only the card pattern finds under one list is found under the
\* name Header once the header pattern is added before it
C3_Witness ==
    /\ boundaries # NotCalled
    /\ <<2, "Card">> \in DetectedWith(document, <<classPatterns[5]>>)
    /\ <<2, "Header">> \in DetectedWith(document, <<classPatterns[1], classPatterns[5]>>)
    /\ \E k \in 1..Len(boundaries.value) :
          boundaries.value[k].element = 2 /\ boundaries.value[k].suggestedName = "Header"

\* the elements that the class-pattern pass looks at and that match a pattern
MatchesAPattern(dom, i) ==
    /\ IsElement(dom, i)
    /\ hasAttribute(dom[i].node, "class")
    /\ \E p \in 1..Len(classPatterns) :
          includes(toLowerCase(classNameOf(dom[i].node)), classPatterns[p].pattern)

\* C4 as stated: every element whose class string matches a pattern is a
\* boundary afterwards; distinct elements are never collapsed into one boundary.
C4_EveryMatchIsABoundary ==
    boundaries # NotCalled =>
        \A i \in 1..Len(document) :
            MatchesAPattern(document, i) => i \in BoundaryElements(boundaries.value)

\* C4 (amended): every element whose class string matches a pattern is a
\* boundary afterwards, or a boundary of another element has its class string
\* and its tag; an element is listed at most once by the class-pattern pass.
C4_MatchIsABoundaryOrRepeatsOne ==
    boundaries # NotCalled =>
        LET bs == boundaries.value
        IN  /\ \A i \in 1..Len(document) :
                  MatchesAPattern(document, i) =>
                      \/ i \in BoundaryElements(bs)
                      \/ \E k \in 1..Len(bs) :
                            /\ bs[k].element # i
                            /\ bs[k].className = classNameOf(document[i].node)
                            /\ bs[k].type = tagNameOf(document[i].node)
            /\ \A j, k \in 1..Len(bs) :
                  (j # k /\ bs[j].element = bs[k].element) =>
                      \E s \in 1..Len(semanticSelectors) :
                          matches(document[bs[j].element].node, semanticSelectors[s])

\* two cards with the same class string gave one boundary, a third class string
\* would have given its own
C4_Witness ==
    /\ boundaries # NotCalled
    /\ Len(document) = 3
    /\ document[2].node = document[3].node
    /\ MatchesAPattern(document, 2)
    /\ BoundaryElements(boundaries.value) = {2}

\* C6: the boundary names that extractAllComponents used and those that a
\* second call of extractComponentBoundaries returns on the same converter are
\* the same.
C6_RepeatedCallsAgree ==
    (components # NotCalled /\ boundaries # NotCalled) =>
        [k \in 1..Len(components.value) |-> components.value[k].name]
            = [k \in 1..Len(boundaries.value) |-> boundaries.value[k].suggestedName]

\* the text of a class string before its first space
FirstClass(className) ==
    IF IndexOfChar(className, " ") = 0 THEN className
    ELSE SubSeq(className, 1, IndexOfChar(className, " ") - 1)

IsSemantic(element) ==
    \E s \in 1..Len(semanticSelectors) : matches(element, semanticSelectors[s])

SemanticDefaults ==
    [header |-> "Header", nav |-> "Navigation", main |-> "MainContent",
     aside |-> "Sidebar", footer |-> "Footer", article |-> "Article",
     section |-> "Section"]

NeedsCounter(element) ==
    /\ idOf(element) = "" /\ classNameOf(element) = ""
    /\ tagNameOf(element) \notin DOMAIN SemanticDefaults

NamedByRule(element, name) ==
    IF idOf(element) # "" THEN name = toPascalCase(idOf(element))
    ELSE IF classNameOf(element) # ""
    THEN name = toPascalCase(FirstClass(classNameOf(element)))
    ELSE /\ tagNameOf(element) \in DOMAIN SemanticDefaults
         /\ name = SemanticDefaults[tagNameOf(element)]

\* C7 as stated: a boundary of an element matched by a semantic-tag or ARIA-role
\* selector is named PascalCase(id), else PascalCase of the first class, else
\* the semantic default of its tag.
C7_SemanticNames ==
    boundaries # NotCalled =>
        \A k \in 1..Len(boundaries.value) :
            LET b == boundaries.value[k]
            IN  IsSemantic(document[b.element].node)
                    => NamedByRule(document[b.element].node, b.suggestedName)

\* C7 (amended): as C7, and an element with no id, no class and a tag without
\* semantic default (one matched by its role only) is named Component<N>, N
\* being the converter's counter after it was incremented for that boundary.
C7_SemanticNamesOrCounter ==
    boundaries # NotCalled =>
        LET bs == boundaries.value
            Counted(k) == Cardinality({j \in 1..k :
                              /\ IsSemantic(document[bs[j].element].node)
                              /\ NeedsCounter(document[bs[j].element].node)})
        IN  \A k \in 1..Len(bs) :
                LET el == document[bs[k].element].node
                IN  IsSemantic(el) =>
                        IF NeedsCounter(el)
                        THEN bs[k].suggestedName = "Component"
                                \o ToString(componentCounter - Counted(Len(bs)) + Counted(k))
                        ELSE NamedByRule(el, bs[k].suggestedName)

\* an element named from its id although it has a class, and one named by the
\* counter
C7_Witness ==
    /\ boundaries # NotCalled
    /\ \E k \in 1..Len(boundaries.value) :
          /\ classNameOf(document[boundaries.value[k].element].node) = "top bar"
          /\ boundaries.value[k].suggestedName = "MainNav"
    /\ \E k \in 1..Len(boundaries.value) : boundaries.value[k].suggestedName = "Component2"

(***************************************************************************)
(* Claims about writeComponents and the CLI (SpecCLI).                     *)
(***************************************************************************)
\* the run went through writeComponents to its end
WriteFinished ==
    /\ cli.pc = "exited" /\ cli.exitCode = 0
    /\ components # NotCalled
    /\ ~cli.options.showTree
    /\ cli.options.outputDir # Falsy

WrittenFiles == {cli.written[k] : k \in 1..Len(cli.written)}

\* C5: after writeComponents the run has written as many distinct files as there
\* are components: no two components share a file name, none is overwritten by
\* another component of the run.
C5_OneFilePerComponent ==
    WriteFinished =>
        /\ Cardinality(WrittenFiles) = Len(components.value)
        /\ \A j, k \in 1..Len(components.value) :
              j # k => components.value[j].filename # components.value[k].filename
        /\ \A k \in 1..Len(components.value) :
              fs.files[cli.written[k]] = TextFile(components.value[k].content)

\* the options of the command line, and whether it asks for a conversion
GivenOptions == parseArgs(argv, 1, NoOptions)
GivenInput == projectInput(GivenOptions)
ConvertRun == ~GivenOptions.help
InputMissing == ConvertRun /\ (GivenInput = Falsy \/ ~existsSync(fs, GivenInput))

\* C10: when no input path is given or the input file does not exist, the run
\* never gets past loading the file, it ends with exit code 1, and no step
\* creates or changes a file or a directory.
C10_MissingInputIsFatal ==
    /\ [](InputMissing =>
            /\ cli.pc \in {"args", "paths", "load", "exited"}
            /\ cli.written = <<>>
            /\ (cli.pc = "exited" => cli.exitCode = 1))
    /\ [][InputMissing => fs' = fs]_vars

\* a run with an output directory whose input file is missing has ended, and
\* the output directory was not made
C10_Witness ==
    /\ InputMissing
    /\ GivenInput = "missing.html"
    /\ cli.pc = "exited" /\ cli.exitCode = 1
    /\ cli.options.outputDir = "out"
    /\ ~existsSync(fs, "out")

\* C11: whenever a step overwrites an existing file with other content, a copy
\* of the file's previous content is on the disk after the step.
C11_BackupBeforeOverwrite ==
    [][\A p \in DOMAIN fs.files :
          (p \in DOMAIN fs'.files /\ fs'.files[p] # fs.files[p]) =>
              \E b \in DOMAIN fs'.files : b # p /\ fs'.files[b] = fs.files[p]]_vars

\* the run got as far as writeComponents
ReachedWriting ==
    /\ boundaries # NotCalled
    /\ ~cli.options.showTree
    /\ cli.options.outputDir # Falsy

\* a step of the write loop that did not write its component
WriteFailed ==
    /\ cli.pc = "write"
    /\ Len(cli.written) < Len(components.value)
    /\ cli'.written = cli.written

\* what a file of the output directory can hold when only the first n
\* components were written
HoldsOneOfFirst(p, n) ==
    \/ fs.files[p].kind = "html"
    \/ fs.files[p] \in {TextFile("earlier"), TextFile("")}
    \/ \E j \in 1..n :
          /\ cli.written[j] = p
          /\ fs.files[p] = TextFile(components.value[j].content)

\* C12: a failed write of the k-th component ends the run at once with exit
\* code 1; the write is not tried again, and no later component is written:
\* after the end the disk does not change and holds only the first k-1
\* components.
C12_FailFastWriting ==
    /\ [][WriteFailed => (cli'.pc = "exited" /\ cli'.exitCode = 1)]_vars
    /\ [][cli.pc = "exited" => (fs' = fs /\ cli' = cli)]_vars
    /\ []((ReachedWriting /\ cli.pc = "exited" /\ cli.exitCode = 1) =>
            /\ Len(cli.written) < Len(components.value) \/ ~existsSync(fs, cli.options.outputDir)
            /\ \A p \in DOMAIN fs.files : HoldsOneOfFirst(p, Len(cli.written)))

\* the first of two components was written, the write of the second failed and
\* the run has ended with exit code 1
C12_Witness ==
    /\ ReachedWriting
    /\ cli.pc = "exited" /\ cli.exitCode = 1
    /\ Len(cli.written) = 1
    /\ Len(components.value) = 2
    /\ components.value[1].filename # components.value[2].filename

\* C13: a step changes the disk only when --tree is not set and an output
\* directory is known; a run with --tree that could load its input ends with
\* exit code 0 after the tree was built.
C13_TreeWritesNothing ==
    /\ [][fs' # fs =>
            (~GivenOptions.showTree /\ projectOutput(GivenOptions) # Falsy)]_vars
    /\ []((ConvertRun /\ GivenOptions.showTree /\ ~InputMissing /\ cli.pc = "exited") =>
            (cli.exitCode = 0 /\ tree # NotCalled))

\* a run with --tree and --output has ended, and the output directory was not
\* made
C13_Witness ==
    /\ GivenOptions.showTree
    /\ projectOutput(GivenOptions) = "out"
    /\ cli.pc = "exited" /\ cli.exitCode = 0
    /\ tree # NotCalled
    /\ Len(components.value) > 0
    /\ ~existsSync(fs, "out")

(***************************************************************************)
(* Claims about the structural code injector (SpecInject).                 *)
(***************************************************************************)
\* the nodes of the target file that the selector of the call matches
InjectMatches ==
    LET syntaxTree == fs.files[call.arg.file].tree
    IN  {i \in 1..Len(syntaxTree) : selectorMatches(syntaxTree[i].node, call.arg.selector)}

InjectReturns == call.method = "inject" /\ ~call.done /\ call'.done

SkippedTexts(dom) ==
    {i \in 1..Len(dom) :
        /\ dom[i].node.nodeType = TEXT_NODE
        /\ InSkipped(dom, i)
        /\ trim(dom[i].node.data) # ""
        /\ \A j \in 1..Len(dom) :
              (dom[j].node.nodeType = TEXT_NODE /\ ~InSkipped(dom, j))
                  => dom[j].node.data # dom[i].node.data}

\* C15: the JSX of the body holds no element with a skipped tag and none of the
\* text inside skipped elements, and the component tree has no node with a
\* skipped tag.
C15_SkippedContributeNothing ==
    /\ fullJSX # NotCalled =>
          /\ \A k \in 1..Len(ReadTags(fullJSX.value).nodes) :
                ReadTags(fullJSX.value).nodes[k].tag \notin SKIP_TAGS
          /\ \A i \in SkippedTexts(document) :
                ~includes(fullJSX.value, trim(document[i].node.data))
    /\ tree # NotCalled =>
          \A k \in 1..Len(FlattenTree(tree.value, 0)) :
              FlattenTree(tree.value, 0)[k].tag \notin SKIP_TAGS

(***************************************************************************)
(* Further claims about extractComponentBoundaries (SpecBoundaries).       *)
(***************************************************************************)
\* the patterns in their declaration order, each with the name it gives
DeclarationOrder ==
    << <<"header", "Header">>, <<"nav", "Navigation">>, <<"sidebar", "Sidebar">>,
       <<"footer", "Footer">>, <<"card", "Card">>, <<"modal", "Modal">>,
       <<"table", "DataTable">>, <<"form", "Form">>, <<"button", "Button">>,
       <<"panel", "Panel">>, <<"container", "Container">> >>

DeclaredMatches(className) ==
    {p \in 1..Len(DeclarationOrder) :
        includes(toLowerCase(className), DeclarationOrder[p][1])}

\* the boundaries of element i
BoundariesOf(bs, i) == {k \in 1..Len(bs) : bs[k].element = i}

\* C16: an element that only the class-pattern pass can find has at most one
\* boundary, and that boundary has the name of the first pattern, in declaration
\* order, that occurs in its class string.
C16_FirstPatternNames ==
    boundaries # NotCalled =>
        \A i \in 1..Len(document) :
            (IsElement(document, i) /\ ~IsSemantic(document[i].node)) =>
                /\ Cardinality(BoundariesOf(boundaries.value, i)) <= 1
                /\ \A k \in BoundariesOf(boundaries.value, i) :
                      LET M == DeclaredMatches(classNameOf(document[i].node))
                      IN  /\ M # {}
                          /\ boundaries.value[k].suggestedName = DeclarationOrder[Min(M)][2]

\* an element whose class string holds both card and header is the boundary
\* Header
C16_Witness ==
    /\ boundaries # NotCalled
    /\ \E k \in 1..Len(boundaries.value) :
          /\ boundaries.value[k].className = "card-header"
          /\ boundaries.value[k].suggestedName = "Header"
          /\ DeclaredMatches("card-header") = {1, 5}

\* a component identifier: an upper-case letter, then letters and digits
ValidComponentName(name) ==
    /\ name # ""
    /\ IsUpperLetter(CharAt(name, 1))
    /\ \A i \in 1..Len(name) : IsAlnum(CharAt(name, i))

\* C17: every boundary has a suggested name that is a non-empty identifier
\* starting with an upper-case letter and holding only letters and digits, and
\* so has every component.
C17_NamesAreIdentifiers ==
    /\ boundaries # NotCalled =>
          \A k \in 1..Len(boundaries.value) :
              ValidComponentName(boundaries.value[k].suggestedName)
    /\ components # NotCalled =>
          \A k \in 1..Len(components.value) :
              ValidComponentName(components.value[k].name)

(***************************************************************************)
(* Claims about the two views of a document (SpecViews).                   *)
(***************************************************************************)
\* the names of the opening tags of s from position i on, in the order of the
\* text; quoted attribute values are passed over
RECURSIVE OpeningTags(_, _)
OpeningTags(s, i) ==
    IF i > Len(s) THEN <<>>
    ELSE LET c == CharAt(s, i)
         IN  IF c = "<" /\ i < Len(s) /\ CharAt(s, i + 1) # "/"
             THEN <<SubSeq(s, i + 1, NameEnd(s, i + 1))>>
                      \o OpeningTags(s, NameEnd(s, i + 1) + 1)
             ELSE IF c = "\"" /\ IndexFrom(s, "\"", i + 1) # 0
             THEN OpeningTags(s, IndexFrom(s, "\"", i + 1) + 1)
             ELSE OpeningTags(s, i + 1)

TreeTags(node) ==
    LET nodes == FlattenTree(node, 0)
    IN  [k \in 1..Len(nodes) |-> nodes[k].tag]

\* C18: the element tags of the JSX of the body, in the order of the text, are
\* the tags of the component tree in pre-order.
C18_ViewsAgree ==
    (fullJSX # NotCalled /\ tree # NotCalled) =>
        OpeningTags(fullJSX.value, 1) = TreeTags(tree.value)


(***************************************************************************)
(* Claims about the chat of the Amazon home page                           *)
(***************************************************************************)
\* C19: on the home page exactly one of the chat window and the toggle button
\* is displayed: the window iff isChatOpen and not isChatMinimized, the button
\* iff closed or minimized; and isChatMinimized implies isChatOpen.
C19_WindowOrButton ==
    /\ WindowDisplayed <=> (page.isChatOpen /\ ~page.isChatMinimized)
    /\ ButtonDisplayed <=> (~page.isChatOpen \/ page.isChatMinimized)
    /\ WindowDisplayed # ButtonDisplayed
    /\ page.isChatMinimized => page.isChatOpen

\* the window has been minimized: only the button is displayed
C19_Witness == page.isChatMinimized /\ ButtonDisplayed /\ ~WindowDisplayed

\* C20: when a hidden chat window is shown again (reopened after Close, or
\* restored by the toggle button after Minimize), its messages, cart and orders
\* are those it had when it was hidden, plus the answers that arrived since.
C20_SessionSurvivesHiding ==
    [][(hiddenSession # NotCalled /\ WindowDisplayed')
         => Session(chat') = hiddenSession]_vars

\* the cart the chatbot holds: an unmounted window holds none
CartOf(c) == IF c.mounted THEN c.cart ELSE <<>>

\* C21: once the effects have run, the cart count of the navbar
\* (HomePage.cartCount) is the sum of the quantities of the chatbot's cart,
\* whatever was added, bought, cleared, minimized, restored, closed or opened.
C21_BadgeIsCartSize ==
    EventReady => page.cartCount = totalItems(CartOf(chat))

(***************************************************************************)
(* Claims about handleSend of ChatbotWindow and of ChatAgent               *)
(***************************************************************************)
\* a step that sets a timeout is a send; a step that takes the first timeout
\* off is the end of its delay
ChatSends == OnHomePage /\ Len(timers') = Len(timers) + 1
ChatAnswers == OnHomePage /\ timers # <<>> /\ timers' = Tail(timers)
AgentSends == OnSprouts /\ Len(agentTimers') = Len(agentTimers) + 1
AgentAnswers == OnSprouts /\ agentTimers # <<>> /\ agentTimers' = Tail(agentTimers)

Last(seq) == seq[Len(seq)]

\* the window was unmounted: its timeouts are kept, and answer nothing
ChatUnmounts == OnHomePage /\ chat.mounted /\ ~chat'.mounted /\ Len(timers') = Len(timers)

\* the messages of the mounted window, none when there is no window
MessagesOf(c) == IF c.mounted THEN c.messages ELSE <<>>

\* C22: while the component stays mounted, a send with non-blank input appends
\* exactly one user message at once and sets one timeout; when a delay has
\* elapsed exactly one bot message is appended for it; every timeout that was
\* set does run; a send with blank input changes nothing; messages are never
\* lost.  For ChatbotWindow.handleSend and for ChatAgent.handleSend, whatever
\* the number of sends under way.
C22_OneAnswerPerSend ==
    /\ [][ChatSends =>
            /\ trim(chat.inputValue) # ""
            /\ chat'.messages = Append(chat.messages,
                    Message("user", Content("said", chat.inputValue, 0, 0), <<>>, <<>>))
            /\ timers' = Append(timers, Last(timers'))
            /\ Last(timers').query = chat.inputValue /\ Last(timers').live]_vars
    /\ [][(ChatAnswers /\ timers[1].live) =>
            /\ Len(chat'.messages) = Len(chat.messages) + 1
            /\ SubSeq(chat'.messages, 1, Len(chat.messages)) = chat.messages
            /\ Last(chat'.messages).type = "bot"]_vars
    /\ [][(ChatAnswers /\ ~timers[1].live) => chat' = chat]_vars
    /\ [][OnHomePage => (ChatSends \/ ChatAnswers \/ ChatUnmounts \/ timers' = timers)]_vars
    /\ [][(OnHomePage /\ HandleSend /\ trim(chat.inputValue) = "") => UNCHANGED vars]_vars
    /\ [](OnHomePage => \A k \in 1..Len(timers) : timers[k].live => chat.mounted)
    /\ [][AgentSends =>
            /\ trim(agent.input) # ""
            /\ agent'.messages = Append(agent.messages, AgentMessage("user", agent.input))
            /\ agentTimers' = Append(agentTimers, [query |-> agent.input])]_vars
    /\ [][AgentAnswers =>
            /\ Len(agent'.messages) = Len(agent.messages) + 1
            /\ SubSeq(agent'.messages, 1, Len(agent.messages)) = agent.messages
            /\ Last(agent'.messages).role = "assistant"]_vars
    /\ [][OnSprouts => (AgentSends \/ AgentAnswers \/ agentTimers' = agentTimers)]_vars
    /\ [][(OnSprouts /\ ~AgentSends /\ ~AgentAnswers) => agent'.messages = agent.messages]_vars
    /\ [][(OnSprouts /\ AgentHandleSend /\ trim(agent.input) = "") => UNCHANGED vars]_vars
    /\ []<>(timers = <<>>) \/ []<><<OnHomePage /\ ChatAnswers>>_vars
    /\ []<>(agentTimers = <<>>) \/ []<><<OnSprouts /\ AgentAnswers>>_vars

\* two sends of the chat window were under way together, and both are answered
C22_Witness ==
    /\ OnHomePage /\ chat.mounted /\ timers = <<>>
    /\ Len(chat.messages) = 5
    /\ chat.messages[2].type = "user" /\ chat.messages[3].type = "user"
    /\ chat.messages[4].type = "bot" /\ chat.messages[5].type = "bot"

====
